---- MODULE Spec2Model ----
(***************************************************************************)
(* Hybrid retrieval backend: chunking, embedding cache, vector index,      *)
(* keyword index, Reciprocal Rank Fusion, access filtering, RAG chatbot.   *)
(*                                                                         *)
(* External collaborators are black boxes: the embedding model is the      *)
(* function Encode, the two search engines return any ranked list of what  *)
(* the index holds (bounded by the limit asked for), the language model    *)
(* either answers or fails.                                                *)
(***************************************************************************)
EXTENDS Integers, Sequences, FiniteSets, TLC

(***************************************************************************)
(* Bounds of the model.                                                    *)
(***************************************************************************)
\* chunk identifiers the fusion inputs are drawn from
FuseIds == 10
\* chunk identifiers the answers of the two search backends are drawn from
SearchIds == 10
\* the most points of the collection that match one chat query
RagMatches == 5

(***************************************************************************)
(* Program constants (src/config.py, src/qdrant_manager.py).               *)
(***************************************************************************)
SIMILARITY_TOP_K == 8
\* HYBRID_SEARCH_RATIO = 0.7, kept as the fraction 7/10
HYBRID_SEARCH_RATIO_NUM == 7
HYBRID_SEARCH_RATIO_DEN == 10
\* the RRF constant k in 1.0 / (rank + 60)
RRF_K == 60
MIN_SENTENCE_LENGTH == 5
SENTENCES_PER_CHUNK == 5
CONTEXT_CHUNKS_FOR_RAG == 3

VARIABLES
    \* ---- QdrantManager.hybrid_search / _fuse_results ----
    vector_results,     \* ranked list of scored points of the vector index
    keyword_results,    \* ranked list of rows (id, text, pdf_name, page)
    fused,              \* the list _fuse_results returned
    fpc,                \* "call": inputs chosen, "done": fused holds the result
    \* ---- the indexing backend ----
    up,                 \* a VectorStore has been constructed in this process
    points,             \* Qdrant collection: chunk id -> [vector, payload]
    keyword_index,      \* rows of the table keyword_index, rowid = position
    fts_index,          \* entries (rowid, keywords) of the table fts_keyword_index
    embedding_files,    \* EMBEDDING_STORAGE/<chunk id>.json: chunk id -> record
    embedding_cache,    \* VectorStore.embedding_cache: chunk id -> embedding
    stored,             \* history: (pdf_name, page, offset) -> chunk id, for
                        \* every chunk whose embedding file a run has written
    last,               \* what the last operation was given and what it did
    \* ---- one request: VectorStore.hybrid_search or Chatbot.generate_response ----
    query,              \* the query string
    accessible_docs,    \* [is_none, docs]: None, or the list of permitted documents
    semantic_results,   \* what QdrantManager.search answers for the query
    keyword_rows,       \* what KeywordDatabase.search answers for the query
    rag_results,        \* what QdrantManager.vector_search answers for the query
    llm,                \* what ollama.generate does with the prompt
    reply,              \* the outcome of the request
    \* ---- one call of PDFProcessor.chunk_text ----
    chunk_pages,        \* the pages given
    chunks_out,         \* [pc, chunks]: the list returned
    \* ---- one run of a server entry point ----
    request,            \* what the caller sent
    env,                \* the data directory and the state of the services
    answer,             \* what the caller gets back, and what was done for it
    \* ---- st.session_state of one session of the Streamlit app ----
    messages,           \* session_state.messages (<<>>: not set yet)
    history,            \* session_state.history: entries [title, messages]
    current_chat_index, \* position in history, from 1 (0: None)
    messages_of         \* the entry whose list object session_state.messages
                        \* is (0: a list of its own)

fuseVars == <<vector_results, keyword_results, fused, fpc>>
indexVars == <<up, points, keyword_index, fts_index, embedding_files,
               embedding_cache, stored, last>>
requestVars == <<query, accessible_docs, semantic_results, keyword_rows,
                 rag_results, llm, reply>>
chunkVars == <<chunk_pages, chunks_out>>
serverVars == <<request, env, answer>>
sessionVars == <<messages, history, current_chat_index, messages_of>>
vars == <<fuseVars, indexVars, requestVars, chunkVars, serverVars, sessionVars>>

(***************************************************************************)
(* Generic helpers.                                                        *)
(***************************************************************************)
Min(a, b) == IF a < b THEN a ELSE b
Max(a, b) == IF a > b THEN a ELSE b
Range(s) == {s[i] : i \in 1..Len(s)}
\* s[:n]
Take(s, n) == SubSeq(s, 1, Min(n, Len(s)))
\* math.ceil(a / b) for positive b
CeilDiv(a, b) == (a + b - 1) \div b
NoDup(s) == \A i, j \in 1..Len(s) : s[i].id = s[j].id => i = j

(***************************************************************************)
(* Scores.  1.0 / (rank + 60) and sums of two of them are kept as exact    *)
(* fractions n/d.  Two different such values differ by more than 1e-8,     *)
(* far above double rounding, so the order and the ties of the floats are  *)
(* those of the fractions.                                                 *)
(***************************************************************************)
\* the slip of a forgotten constant: 1.0 / rank
RRFWithoutConstant(rank) == [n |-> 1, d |-> rank]

RRF(rank) == [n |-> 1, d |-> rank + RRF_K]
ScoreAdd(x, y) == [n |-> x.n * y.d + y.n * x.d, d |-> x.d * y.d]
ScoreEq(x, y) == x.n * y.d = y.n * x.d
ScoreLess(x, y) == x.n * y.d < y.n * x.d

(***************************************************************************)
(* QdrantManager._fuse_results.  `combined` is a Python dict: a sequence   *)
(* of entries in insertion order, one per key; assigning to a key that is  *)
(* present replaces the value and keeps the position.                      *)
(***************************************************************************)
HasKey(combined, id) == \E i \in 1..Len(combined) : combined[i].id = id
KeyPos(combined, id) == CHOOSE i \in 1..Len(combined) : combined[i].id = id
DictSet(combined, e) ==
    IF HasKey(combined, e.id)
    THEN [combined EXCEPT ![KeyPos(combined, e.id)] = e]
    ELSE Append(combined, e)

\* for rank, result in enumerate(vector_results, 1): combined[result.id] = {...}
RECURSIVE FuseVector(_, _, _)
FuseVector(combined, vs, rank) ==
    IF rank > Len(vs) THEN combined
    ELSE FuseVector(
            DictSet(combined, [score |-> RRF(rank),
                               payload |-> vs[rank].payload,
                               id |-> vs[rank].id]),
            vs, rank + 1)

\* the slip "=" for "+=": a chunk of both lists keeps only its keyword contribution
RECURSIVE FuseKeywordOverwrite(_, _, _)
FuseKeywordOverwrite(combined, ks, rank) ==
    IF rank > Len(ks) THEN combined
    ELSE FuseKeywordOverwrite(
            DictSet(combined,
                    [score |-> RRF(rank),
                     payload |-> [text |-> ks[rank][2],
                                  pdf_name |-> ks[rank][3],
                                  page |-> ks[rank][4]],
                     id |-> ks[rank][1]]),
            ks, rank + 1)

\* for rank, row in enumerate(keyword_results, 1): add to, or create, the entry
RECURSIVE FuseKeyword(_, _, _)
FuseKeyword(combined, ks, rank) ==
    IF rank > Len(ks) THEN combined
    ELSE LET chunk_id == ks[rank][1]
             next ==
                IF HasKey(combined, chunk_id)
                THEN LET p == KeyPos(combined, chunk_id)
                     IN [combined EXCEPT ![p].score = ScoreAdd(@, RRF(rank))]
                ELSE Append(combined,
                            [score |-> RRF(rank),
                             payload |-> [text |-> ks[rank][2],
                                          pdf_name |-> ks[rank][3],
                                          page |-> ks[rank][4]],
                             id |-> chunk_id])
         IN FuseKeyword(next, ks, rank + 1)

Combined(vs, ks) == FuseKeyword(FuseVector(<<>>, vs, 1), ks, 1)

\* the slip of a forgotten reverse=True: lowest score first
InsertByScoreAscending(sorted, e) ==
    LET before == {i \in 1..Len(sorted) : ~ScoreLess(e.score, sorted[i].score)}
        k == IF before = {} THEN 0
             ELSE CHOOSE i \in before : \A j \in before : j <= i
    IN SubSeq(sorted, 1, k) \o <<e>> \o SubSeq(sorted, k + 1, Len(sorted))

\* sorted(..., key=score, reverse=True): stable, highest score first; an entry
\* goes after every entry already placed whose score is not lower.
InsertByScore(sorted, e) ==
    LET before == {i \in 1..Len(sorted) : ~ScoreLess(sorted[i].score, e.score)}
        k == IF before = {} THEN 0
             ELSE CHOOSE i \in before : \A j \in before : j <= i
    IN SubSeq(sorted, 1, k) \o <<e>> \o SubSeq(sorted, k + 1, Len(sorted))

RECURSIVE SortByScoreFrom(_, _, _)
SortByScoreFrom(sorted, s, i) ==
    IF i > Len(s) THEN sorted
    ELSE SortByScoreFrom(InsertByScore(sorted, s[i]), s, i + 1)

SortByScore(s) == SortByScoreFrom(<<>>, s, 1)

FuseResults(vs, ks) == Take(SortByScore(Combined(vs, ks)), SIMILARITY_TOP_K)

(***************************************************************************)
(* The inputs of the fusion: ranked lists over the identifiers 1..FuseIds  *)
(* with no identifier twice in one list (a point id is unique in the       *)
(* vector index, the column id is UNIQUE in the keyword table).  A list is *)
(* a run a, a+1, ... of identifiers, the keyword list in either direction, *)
(* which gives disjoint, overlapping and nested pairs of every length.     *)
(***************************************************************************)
\* the chunk stored under identifier i: chunks alternate between two documents,
\* and chunks 1 and 2 have the same text in different documents
DocOf(i) == IF i % 2 = 0 THEN "a.pdf" ELSE "b.pdf"
TextOf(i) == IF i = 2 THEN 1 ELSE i
Payload(i) == [text |-> TextOf(i), pdf_name |-> DocOf(i), page |-> 1 + (i \div 4)]
ScoredPoint(i) == [id |-> i, payload |-> Payload(i)]
Row(i) == <<i, Payload(i).text, Payload(i).pdf_name, Payload(i).page>>

RunUp(a, n) == [k \in 1..n |-> a + k - 1]
RunDown(a, n) == [k \in 1..n |-> a + n - k]
Runs(ids, maxLen) ==
    {RunUp(a, n) : a \in 1..ids, n \in 0..maxLen}
        \cup {RunDown(a, n) : a \in 1..ids, n \in 0..maxLen}
IdLists(ids, maxLen) ==
    {s \in Runs(ids, maxLen) : \A k \in 1..Len(s) : s[k] \in 1..ids}

VectorLists(ids, maxLen) ==
    {[k \in 1..Len(s) |-> ScoredPoint(s[k])] : s \in IdLists(ids, maxLen)}
KeywordLists(ids, maxLen) ==
    {[k \in 1..Len(s) |-> Row(s[k])] : s \in IdLists(ids, maxLen)}

\* QdrantManager.hybrid_search: the limits it asks the two backends for
vector_limit == CeilDiv(SIMILARITY_TOP_K * HYBRID_SEARCH_RATIO_NUM, HYBRID_SEARCH_RATIO_DEN)
keyword_limit == Max(1, SIMILARITY_TOP_K - vector_limit)

(***************************************************************************)
(* PDFProcessor.chunk_text.  A page is (pdf_name, page, sentences): the     *)
(* sentences are what sent_tokenize makes of the page text, each a list of *)
(* words; the page text is their concatenation.  A word is a number, 0 for *)
(* a token that is no keyword (shorter than 4 characters or not            *)
(* alphanumeric).  ' '.join is the concatenation of the word lists.        *)
(***************************************************************************)
RECURSIVE Join(_)
Join(ss) == IF ss = <<>> THEN <<>> ELSE Head(ss) \o Join(Tail(ss))

SliceOneShort(s, i, n) == SubSeq(s, i + 1, Min(i + n - 1, Len(s)))

\* s[i:i+n], i counted from 0
Slice(s, i, n) == SubSeq(s, i + 1, Min(i + n, Len(s)))

\* list(range(i, n, step))
RECURSIVE Offsets(_, _, _)
Offsets(i, n, step) == IF i >= n THEN <<>> ELSE <<i>> \o Offsets(i + step, n, step)

\* hashlib.md5(f"{pdf_name}_{page}_{i}").hexdigest(): pdf_name ends in ".pdf"
\* and page and i are numbers, so the string names the triple; md5 is taken
\* to be free of collisions.
ChunkId(pdf_name, page, i) == <<"md5", pdf_name, page, i>>

ValidSentences(sentences) ==
    SelectSeq(sentences, LAMBDA s : Len(s) >= MIN_SENTENCE_LENGTH)

MakeChunk(page, i, text) ==
    [text |-> text,
     metadata |-> [pdf_name |-> page.pdf_name,
                   page |-> page.page,
                   chunk_id |-> ChunkId(page.pdf_name, page.page, i)]]

\* the offsets i of the chunks of one page
PageOffsets(page) ==
    IF ValidSentences(page.sentences) = <<>>
    THEN Offsets(0, Len(Join(page.sentences)), MIN_SENTENCE_LENGTH * SENTENCES_PER_CHUNK)
    ELSE Offsets(0, Len(ValidSentences(page.sentences)), SENTENCES_PER_CHUNK)

PageChunks(page) ==
    LET valid_sentences == ValidSentences(page.sentences)
        words == Join(page.sentences)
        chunk_size == MIN_SENTENCE_LENGTH * SENTENCES_PER_CHUNK
        offs == PageOffsets(page)
    IN IF valid_sentences = <<>>
       THEN [k \in 1..Len(offs) |->
                MakeChunk(page, offs[k], Slice(words, offs[k], chunk_size))]
       ELSE [k \in 1..Len(offs) |->
                MakeChunk(page, offs[k],
                          Join(Slice(valid_sentences, offs[k], SENTENCES_PER_CHUNK)))]

RECURSIVE ChunkText(_)
ChunkText(pages_text) ==
    IF pages_text = <<>> THEN <<>>
    ELSE PageChunks(Head(pages_text)) \o ChunkText(Tail(pages_text))

\* the (pdf_name, page, offset) of every chunk of ChunkText, in its order
RECURSIVE ChunkKeys(_)
ChunkKeys(pages_text) ==
    IF pages_text = <<>> THEN <<>>
    ELSE LET page == Head(pages_text)
             offs == PageOffsets(page)
         IN [k \in 1..Len(offs) |-> <<page.pdf_name, page.page, offs[k]>>]
                \o ChunkKeys(Tail(pages_text))

(***************************************************************************)
(* The documents of the data directory.  a.pdf has one page of seven       *)
(* sentences, one of them too short, hence two chunks (offsets 0 and 5);   *)
(* PageA2 is the same page after an edit of its first sentence.  b.pdf has *)
(* one page whose only sentence is the last sentence of a.pdf: its chunk   *)
(* has the text of the second chunk of a.pdf under another identifier.     *)
(***************************************************************************)
Sentence(w, n) == [k \in 1..n |-> w]
PageA ==
    [pdf_name |-> "a.pdf", page |-> 1,
     sentences |-> <<Sentence(1, 5), Sentence(2, 5), Sentence(3, 4), Sentence(4, 5),
                     Sentence(5, 5), Sentence(6, 5), Sentence(7, 5)>>]
PageA2 ==
    [pdf_name |-> "a.pdf", page |-> 1,
     sentences |-> <<Sentence(8, 5), Sentence(2, 5), Sentence(3, 4), Sentence(4, 5),
                     Sentence(5, 5), Sentence(6, 5), Sentence(7, 5)>>]
PageB ==
    [pdf_name |-> "b.pdf", page |-> 2, sentences |-> <<Sentence(7, 5)>>]

\* what process_pdfs can read: the pages of the PDFs of the data directory
PageLists ==
    {<<>>, <<PageA>>, <<PageA2>>, <<PageB>>, <<PageA, PageB>>, <<PageA2, PageB>>}

(***************************************************************************)
(* The data directory the servers work on: a list of files in the order    *)
(* glob yields them, each with the suffix of its name as glob sees it      *)
(* (patterns match case, as on a POSIX file system).  c.PDF holds one page *)
(* with a sentence of its own.                                             *)
(***************************************************************************)
PageC ==
    [pdf_name |-> "c.PDF", page |-> 1, sentences |-> <<Sentence(9, 5)>>]
FileA == [name |-> "a.pdf", suffix |-> ".pdf"]
FileB == [name |-> "b.pdf", suffix |-> ".pdf"]
FileC == [name |-> "c.PDF", suffix |-> ".PDF"]
FileT == [name |-> "notes.txt", suffix |-> ".txt"]
DataDirs ==
    {<<>>, <<FileT>>, <<FileA>>, <<FileC>>, <<FileA, FileB>>, <<FileC, FileA, FileT>>}

\* extract_text_from_pdf: the pages of a file
FilePages(file) ==
    IF file = FileA THEN <<PageA>>
    ELSE IF file = FileB THEN <<PageB>>
    ELSE IF file = FileC THEN <<PageC>>
    ELSE <<>>

\* list(directory.glob("*" + suffix))
Glob(dir, suffix) == SelectSeq(dir, LAMBDA file : file.suffix = suffix)

\* the pages process_pdfs reads: those of *.pdf, then those of *.PDF
RECURSIVE PagesOfFiles(_)
PagesOfFiles(files) ==
    IF files = <<>> THEN <<>>
    ELSE FilePages(Head(files)) \o PagesOfFiles(Tail(files))
PdfFiles(dir) == Glob(dir, ".pdf") \o Glob(dir, ".PDF")
DirPages(dir) == PagesOfFiles(PdfFiles(dir))

\* process_pdfs: the chunks of every page list, computed once
ProcessPdfs ==
    [pl \in PageLists \cup {DirPages(dir) : dir \in DataDirs} |-> ChunkText(pl)]

AllChunks == UNION {Range(ProcessPdfs[pl]) : pl \in DOMAIN ProcessPdfs}
AllChunkIds == {c.metadata.chunk_id : c \in AllChunks}

(***************************************************************************)
(* Pages for chunk_text alone: n sentences of distinct words, so that the  *)
(* place of every word in the chunks can be told.  The sentences of a page *)
(* are all valid (5 words), all short (4 words: the page falls back to     *)
(* groups of words), or mixed (every third has 2 words, the others 6).     *)
(***************************************************************************)
MaxSentences == 13
Shapes == {"valid", "short", "mixed"}
SentenceLen(shape, k) ==
    IF shape = "valid" THEN 5
    ELSE IF shape = "short" THEN 4
    ELSE IF k % 3 = 0 THEN 2 ELSE 6
WordOf(page, k, j) == 1000 * page + 10 * k + j
TestPage(pdf_name, page, shape, n) ==
    [pdf_name |-> pdf_name, page |-> page,
     sentences |-> [k \in 1..n |->
                      [j \in 1..SentenceLen(shape, k) |-> WordOf(page, k, j)]]]
ChunkInputs ==
    {<<TestPage("a.pdf", 1, shape, n)>> : shape \in Shapes, n \in 0..MaxSentences}
        \cup {<<TestPage("a.pdf", 1, shape, n), TestPage("a.pdf", 2, "mixed", 9)>> :
                 shape \in Shapes, n \in 0..MaxSentences}

(***************************************************************************)
(* VectorStore: the embedding cache.                                       *)
(***************************************************************************)
EMBEDDING_MODEL == "all-MiniLM-L6-v2"

\* SentenceTransformer.encode: a function of the text
Encode(text) == [embedding_of |-> text]

\* the content of <chunk id>.json; parses = FALSE for a file json.load rejects
CacheRecord(embedding) == [parses |-> TRUE, model |-> EMBEDDING_MODEL, embedding |-> embedding]
ForeignRecord == [parses |-> TRUE, model |-> "other-model", embedding |-> <<>>]
BrokenRecord == [parses |-> FALSE, model |-> "", embedding |-> <<>>]

Loadable(files, id) ==
    /\ id \in DOMAIN files
    /\ files[id].parses
    /\ files[id].model = EMBEDDING_MODEL

\* the slip of a missing model check: every file that parses is loaded
LoadAnyModel(files) ==
    [id \in {i \in DOMAIN files : files[i].parses} |-> files[id].embedding]

\* _load_embedding_cache: one entry per file that parses and names the model
LoadEmbeddingCache(files) ==
    [id \in {i \in DOMAIN files : Loadable(files, i)} |-> files[id].embedding]

ChunkIds(chunks) == {chunks[k].metadata.chunk_id : k \in 1..Len(chunks)}

\* the slip of a lookup that never hits: every chunk goes to the model
ToEmbedAll(chunks, cache) == chunks

\* the chunks of the first loop of _generate_embeddings that miss the cache
ToEmbed(chunks, cache) ==
    SelectSeq(chunks, LAMBDA c : c.metadata.chunk_id \notin DOMAIN cache)

\* chunks_to_embed_map[text]: the id of the last chunk to embed with that text
ChunksToEmbedMap(to_embed, text) ==
    LET ks == {k \in 1..Len(to_embed) : to_embed[k].text = text}
        last_k == CHOOSE k \in ks : \A j \in ks : j <= k
    IN to_embed[last_k].metadata.chunk_id

\* the ids the second loop saves, in its order
SavedIds(to_embed) ==
    [k \in 1..Len(to_embed) |-> ChunksToEmbedMap(to_embed, to_embed[k].text)]

\* embeddings_map at the end of _generate_embeddings
EmbeddingsMap(chunks, cache) ==
    LET to_embed == ToEmbed(chunks, cache)
        saved == SavedIds(to_embed)
        hits == ChunkIds(chunks) \cap DOMAIN cache
        LastSave(id) == CHOOSE k \in 1..Len(saved) :
                            /\ saved[k] = id
                            /\ \A j \in 1..Len(saved) : saved[j] = id => j <= k
    IN [id \in hits \cup Range(saved) |->
            IF id \in Range(saved) THEN Encode(to_embed[LastSave(id)].text)
            ELSE cache[id]]

\* the return statement raises KeyError for a chunk id embeddings_map lacks
GenerateReturns(chunks, cache) ==
    ChunkIds(chunks) \subseteq DOMAIN EmbeddingsMap(chunks, cache)

GenerateEmbeddings(chunks, cache) ==
    LET embeddings_map == EmbeddingsMap(chunks, cache)
    IN [k \in 1..Len(chunks) |-> embeddings_map[chunks[k].metadata.chunk_id]]

\* _save_embedding for every saved id; the write of the ids in `failing` raises
\* and is logged, leaving the file as it was or, when the file was opened and
\* the dump failed (`truncates`), an unreadable file
FilesAfterSave(files, chunks, cache, failing, truncates) ==
    LET emap == EmbeddingsMap(chunks, cache)
        saved == Range(SavedIds(ToEmbed(chunks, cache)))
        written == saved \ failing
        broken == IF truncates THEN saved \cap failing ELSE {}
    IN [id \in DOMAIN files \cup written \cup broken |->
            IF id \in written THEN CacheRecord(emap[id])
            ELSE IF id \in broken THEN BrokenRecord
            ELSE files[id]]

\* the slip of a save that writes the file and forgets embedding_cache
CacheAfterSaveForgets(chunks, cache, failing) == cache

CacheAfterSave(chunks, cache, failing) ==
    LET emap == EmbeddingsMap(chunks, cache)
        written == Range(SavedIds(ToEmbed(chunks, cache))) \ failing
    IN [id \in DOMAIN cache \cup written |->
            IF id \in written THEN emap[id] ELSE cache[id]]

(***************************************************************************)
(* QdrantManager.upsert_vectors: one point per chunk id, the last chunk of *)
(* an id winning.                                                          *)
(***************************************************************************)
PointOf(chunk, embedding) ==
    [vector |-> embedding,
     payload |-> [text |-> chunk.text,
                  pdf_name |-> chunk.metadata.pdf_name,
                  page |-> chunk.metadata.page]]

UpsertVectors(pts, chunks, embeddings) ==
    LET n == Min(Len(chunks), Len(embeddings))
        LastOf(id) == CHOOSE k \in 1..n :
                          /\ chunks[k].metadata.chunk_id = id
                          /\ \A j \in 1..n : chunks[j].metadata.chunk_id = id => j <= k
        ids == {chunks[k].metadata.chunk_id : k \in 1..n}
    IN [id \in DOMAIN pts \cup ids |->
            IF id \in ids THEN PointOf(chunks[LastOf(id)], embeddings[LastOf(id)])
            ELSE pts[id]]

(***************************************************************************)
(* KeywordDatabase.                                                        *)
(***************************************************************************)
\* words in the order of their first occurrence
RECURSIVE Distinct(_)
Distinct(ws) ==
    IF ws = <<>> THEN <<>>
    ELSE LET rest == Distinct(SubSeq(ws, 1, Len(ws) - 1))
             w == ws[Len(ws)]
         IN IF w \in Range(rest) THEN rest ELSE Append(rest, w)

Count(ws, w) == Cardinality({k \in 1..Len(ws) : ws[k] = w})

\* Counter(words).most_common(): by count, highest first, ties in the order of
\* first occurrence
RECURSIVE MostCommonFrom(_, _, _)
MostCommonFrom(sorted, ws, ds) ==
    IF ds = <<>> THEN sorted
    ELSE LET w == Head(ds)
             before == {i \in 1..Len(sorted) : Count(ws, sorted[i]) >= Count(ws, w)}
             k == IF before = {} THEN 0
                  ELSE CHOOSE i \in before : \A j \in before : j <= i
         IN MostCommonFrom(SubSeq(sorted, 1, k) \o <<w>> \o SubSeq(sorted, k + 1, Len(sorted)),
                           ws, Tail(ds))

\* _extract_keywords: the five most common words of more than 3 characters
ExtractKeywords(text) ==
    LET words == SelectSeq(text, LAMBDA w : w # 0)
    IN Take(MostCommonFrom(<<>>, words, Distinct(words)), 5)

\* the keyword string of every chunk text, computed once
Keywords == [text \in {c.text : c \in AllChunks} |-> ExtractKeywords(text)]

RowOf(chunk) ==
    [id |-> chunk.metadata.chunk_id,
     text |-> chunk.text,
     pdf_name |-> chunk.metadata.pdf_name,
     page |-> chunk.metadata.page,
     keywords |-> Keywords[chunk.text]]

\* insert_chunks: INSERT per chunk; the UNIQUE constraint on id rejects a chunk
\* whose id has a row, the error is logged and the loop goes on; then commit
RECURSIVE InsertChunks(_, _)
InsertChunks(rows, chunks) ==
    IF chunks = <<>> THEN rows
    ELSE LET chunk == Head(chunks)
             taken == \E r \in 1..Len(rows) : rows[r].id = chunk.metadata.chunk_id
         IN InsertChunks(IF taken THEN rows ELSE Append(rows, RowOf(chunk)),
                         Tail(chunks))

\* the trigger keyword_index_ai: every inserted row gets its fts entry
FtsAfterInsert(fts, old_rows, new_rows) ==
    fts \cup {[rowid |-> r, keywords |-> new_rows[r].keywords] :
                 r \in (Len(old_rows) + 1)..Len(new_rows)}

\* KeywordDatabase.search: the rows whose fts entry holds one of the keywords
\* (MATCH 'k1 OR k2 ...'), in rowid order, at most `limit` of them
KeywordDbSearch(rows, fts, keywords, limit) ==
    LET matching == {e.rowid : e \in {f \in fts :
                        Range(f.keywords) \cap Range(keywords) # {}}}
        hits == SelectSeq([r \in 1..Len(rows) |-> r], LAMBDA r : r \in matching)
    IN [k \in 1..Min(limit, Len(hits)) |->
          <<rows[hits[k]].id, rows[hits[k]].text, rows[hits[k]].pdf_name,
            rows[hits[k]].page>>]

(***************************************************************************)
(* VectorStore.hybrid_search.  A result of QdrantManager.search is a dict  *)
(* {'id', 'payload', 'score'}, a row of KeywordDatabase.search is a tuple  *)
(* (id, text, pdf_name, page); `type` is the Python type isinstance sees.  *)
(* The cosine score of a result falls with its rank and stays above the    *)
(* score_threshold 0.3; it is kept as a fraction like the fused scores.    *)
(***************************************************************************)
semantic_limit == 10
hybrid_keyword_limit == 5

SemanticDict(i, rank) ==
    [type |-> "dict", id |-> i, payload |-> Payload(i),
     score |-> [n |-> 100 - 5 * rank, d |-> 100]]
RowTuple(i) == [type |-> "tuple", items |-> Row(i)]

SemanticLists ==
    {[k \in 1..Len(s) |-> SemanticDict(s[k], k)] : s \in IdLists(SearchIds, semantic_limit)}
KeywordRowLists ==
    {[k \in 1..Len(s) |-> RowTuple(s[k])] : s \in IdLists(SearchIds, hybrid_keyword_limit)}

\* accessible_docs: None, or a list of document names (the empty list too)
AccessLists ==
    {[is_none |-> TRUE, docs |-> <<>>]}
        \cup {[is_none |-> FALSE, docs |-> d] :
                d \in {<<>>, <<"a.pdf">>, <<"b.pdf">>, <<"a.pdf", "b.pdf">>}}

IsDict(result) == result.type = "dict"

\* result.get('text', '') or result.get('payload', {}).get('text', ''); 0 is ''
ContentOf(result) ==
    LET text == IF "text" \in DOMAIN result THEN result.text ELSE 0
    IN IF text # 0 THEN text
       ELSE IF "payload" \in DOMAIN result /\ "text" \in DOMAIN result.payload
            THEN result.payload.text
            ELSE 0

\* the loop over `combined` that keeps the first result of every content;
\* hash(content) is taken to be free of collisions
RECURSIVE UniqueResults(_, _, _)
UniqueResults(unique_results, seen, combined) ==
    IF combined = <<>> THEN unique_results
    ELSE LET result == Head(combined)
             key == ContentOf(result)
         IN IF key \in seen
            THEN UniqueResults(unique_results, seen, Tail(combined))
            ELSE UniqueResults(Append(unique_results, result), seen \cup {key},
                               Tail(combined))

\* _combine_results: the dicts of both lists (a result of either list that is
\* no dict is passed over), made unique by content, sorted by score
CombineResults(semantic, keyword) ==
    LET combined == SelectSeq(semantic, IsDict) \o SelectSeq(keyword, IsDict)
    IN SortByScore(UniqueResults(<<>>, {}, combined))

\* the document name _filter_by_accessible_docs reads off a result ("" if none)
ResultDocName(result) ==
    IF "payload" \in DOMAIN result /\ "pdf_name" \in DOMAIN result.payload
    THEN result.payload.pdf_name
    ELSE IF "metadata" \in DOMAIN result /\ "source" \in DOMAIN result.metadata
         THEN result.metadata.source
         ELSE ""

\* _filter_by_accessible_docs: `if not accessible_docs: return results`
FilterByAccessibleDocs(results, docs) ==
    IF docs = <<>> THEN results
    ELSE SelectSeq(results,
                   LAMBDA r : ResultDocName(r) # "" /\ ResultDocName(r) \in Range(docs))

\* hybrid_search; keyword_raises: KeywordDatabase.search raises (the cursor of
\* a closed connection), which the except clause turns into []
HybridSearch(semantic, keyword, docs, keyword_raises) ==
    LET combined_results ==
            IF Len(semantic) < 5 THEN CombineResults(semantic, keyword)
            ELSE semantic
        filtered ==
            IF ~docs.is_none THEN FilterByAccessibleDocs(combined_results, docs.docs)
            ELSE combined_results
    IN IF Len(semantic) < 5 /\ keyword_raises THEN <<>>
       ELSE Take(filtered, 8)

(***************************************************************************)
(* Chatbot.generate_response.  A text of identifier t has 100 * t          *)
(* characters; the context string is kept as the list of the texts joined. *)
(***************************************************************************)
Queries == {"", " ", "question"}
Blank(q) == q \in {"", " "}
TextLen(t) == 100 * t

\* QdrantManager.vector_search: the first `limit` points of the ranking of the
\* collection for the query
VectorSearch(ranking, limit) == Take(ranking, limit)

GetContextForRagUnlimited(q, ranking, retrieval_raises) ==
    IF Blank(q) \/ retrieval_raises THEN <<>>
    ELSE [k \in 1..Len(ranking) |-> ranking[k].payload]

\* VectorStore.get_context_for_rag: the payloads of at most 3 points; a blank
\* query or a failing retrieval gives []
GetContextForRag(q, ranking, retrieval_raises) ==
    IF Blank(q) \/ retrieval_raises THEN <<>>
    ELSE LET search_results == VectorSearch(ranking, CONTEXT_CHUNKS_FOR_RAG)
         IN [k \in 1..Len(search_results) |-> search_results[k].payload]

\* the backends a call of generate_response turns to, in order
CallsOf(q, llm_called) ==
    (IF q = "" \/ Blank(q) THEN <<>> ELSE <<"vector_search">>)
        \o (IF llm_called THEN <<"ollama.generate">> ELSE <<>>)

\* the document name _filter_chunks_by_access reads off a chunk ("" if none)
ChunkDocName(chunk) ==
    IF "metadata" \in DOMAIN chunk /\ "source" \in DOMAIN chunk.metadata
    THEN chunk.metadata.source
    ELSE IF "pdf_name" \in DOMAIN chunk THEN chunk.pdf_name ELSE ""

\* _filter_chunks_by_access: `if not accessible_docs: return chunks`
FilterChunksByAccess(chunks, docs) ==
    IF docs = <<>> THEN chunks
    ELSE SelectSeq(chunks,
                   LAMBDA c : ChunkDocName(c) # "" /\ ChunkDocName(c) \in Range(docs))

\* len("\n\n---\n\n".join(texts))
RECURSIVE ContextLen(_)
ContextLen(texts) ==
    IF texts = <<>> THEN 0
    ELSE TextLen(Head(texts)) + (IF Len(texts) > 1 THEN 7 ELSE 0) + ContextLen(Tail(texts))

FallbackResponseCutShorter(q, context) ==
    [kind |-> "fallback", query |-> q, context |-> context,
     chars |-> Min(ContextLen(context), 500),
     ellipsis |-> ContextLen(context) > 500]

\* _generate_fallback_response: the context, cut to 800 characters plus "..."
FallbackResponse(q, context) ==
    [kind |-> "fallback", query |-> q, context |-> context,
     chars |-> Min(ContextLen(context), 800),
     ellipsis |-> ContextLen(context) > 800]

Outcome(q, response, sources, prompt_context, retrieved, llm_called) ==
    [pc |-> "done", op |-> "generate_response", response |-> response,
     sources |-> sources, prompt_context |-> prompt_context,
     retrieved |-> retrieved, llm_called |-> llm_called,
     calls |-> CallsOf(q, llm_called)]

\* the slip of a missing `if not retrieved_chunks` after the filter: the model
\* is asked with an empty context
GenerateResponseAsksAnyway(q, results, retrieval_raises, docs, model) ==
    IF q = ""
    THEN Outcome(q, [kind |-> "ask"], <<>>, <<>>, FALSE, FALSE)
    ELSE LET retrieved_chunks == GetContextForRag(q, results, retrieval_raises)
             filtered == IF ~docs.is_none
                         THEN FilterChunksByAccess(retrieved_chunks, docs.docs)
                         ELSE retrieved_chunks
             context == [k \in 1..Len(filtered) |-> filtered[k].text]
         IN IF retrieved_chunks = <<>>
            THEN Outcome(q, [kind |-> "not_found"], <<>>, <<>>, TRUE, FALSE)
            ELSE IF model = "raises"
            THEN Outcome(q, FallbackResponse(q, context), filtered, context, TRUE, TRUE)
            ELSE IF model = "no_response"
            THEN Outcome(q, [kind |-> "answer", text |-> "Sorry, I encountered an error."],
                         filtered, context, TRUE, TRUE)
            ELSE Outcome(q, [kind |-> "answer", text |-> "response"],
                         filtered, context, TRUE, TRUE)

GenerateResponse(q, results, retrieval_raises, docs, model) ==
    IF q = ""
    THEN Outcome(q, [kind |-> "ask"], <<>>, <<>>, FALSE, FALSE)
    ELSE LET retrieved_chunks == GetContextForRag(q, results, retrieval_raises)
             filtered == IF ~docs.is_none
                         THEN FilterChunksByAccess(retrieved_chunks, docs.docs)
                         ELSE retrieved_chunks
             context == [k \in 1..Len(filtered) |-> filtered[k].text]
         IN IF retrieved_chunks = <<>>
            THEN Outcome(q, [kind |-> "not_found"], <<>>, <<>>, TRUE, FALSE)
            ELSE IF filtered = <<>>
            THEN Outcome(q, [kind |-> "not_found_accessible"], <<>>, <<>>, TRUE, FALSE)
            ELSE IF model = "raises"
            THEN Outcome(q, FallbackResponse(q, context), filtered, context, TRUE, TRUE)
            ELSE IF model = "no_response"
            THEN Outcome(q, [kind |-> "answer", text |-> "Sorry, I encountered an error."],
                         filtered, context, TRUE, TRUE)
            ELSE Outcome(q, [kind |-> "answer", text |-> "response"],
                         filtered, context, TRUE, TRUE)

(***************************************************************************)
(* api_server and fastapi_server.  The data of a request is a JSON value:  *)
(* `fields` is the object, when it is one.  A missing accessLevel reads as *)
(* None, which the code treats like '', so '' stands for both.             *)
(***************************************************************************)
Get(fields, key, default) == IF key \in DOMAIN fields THEN fields[key] ELSE default

\* get_accessible_documents (both servers)
GetAccessibleDocuments(accessLevel, dir) ==
    IF accessLevel = "" \/ accessLevel = "all"
    THEN [is_none |-> TRUE, docs |-> <<>>]
    ELSE LET found == Glob(dir, ".pdf")
         IN [is_none |-> FALSE, docs |-> [k \in 1..Len(found) |-> found[k].name]]

HandleSearchRequestStoreFirst(data, store, dir, semantic, keyword, keyword_raises) ==
    IF ~data.is_dict
    THEN [result |-> [error |-> "AttributeError"], looked |-> <<>>]
    ELSE IF ~store
    THEN [result |-> [error |-> "Search service not available"],
          looked |-> <<"vector_store">>]
    ELSE IF Get(data.fields, "query", "") = ""
    THEN [result |-> [error |-> "No query provided"], looked |-> <<"vector_store", "query">>]
    ELSE [result |->
            [results |-> HybridSearch(semantic, keyword,
                                      GetAccessibleDocuments(
                                          Get(data.fields, "accessLevel", ""), dir),
                                      keyword_raises)],
          looked |-> <<"vector_store", "query", "hybrid_search">>]

\* handle_search_request; `looked`: what the handler turned to, in order
HandleSearchRequest(data, store, dir, semantic, keyword, keyword_raises) ==
    IF ~data.is_dict
    THEN [result |-> [error |-> "AttributeError"], looked |-> <<>>]
    ELSE LET query_ == Get(data.fields, "query", "")
             accessLevel == Get(data.fields, "accessLevel", "")
         IN IF query_ = ""
            THEN [result |-> [error |-> "No query provided"], looked |-> <<"query">>]
            ELSE IF ~store
            THEN [result |-> [error |-> "Search service not available"],
                  looked |-> <<"query", "vector_store">>]
            ELSE [result |->
                    [results |-> HybridSearch(semantic, keyword,
                                              GetAccessibleDocuments(accessLevel, dir),
                                              keyword_raises)],
                  looked |-> <<"query", "vector_store", "hybrid_search">>]

\* handle_chatbot_request; generate_raises: generate_response raises outside
\* its own try block (a query that is no string, a payload without text)
HandleChatbotRequest(data, bot, dir, ranking, retrieval_raises, model, generate_raises) ==
    IF ~data.is_dict
    THEN [result |-> [error |-> "AttributeError"], looked |-> <<>>]
    ELSE LET query_ == Get(data.fields, "query", "")
             accessLevel == Get(data.fields, "accessLevel", "")
             out == GenerateResponse(query_, ranking, retrieval_raises,
                                     GetAccessibleDocuments(accessLevel, dir), model)
         IN IF query_ = ""
            THEN [result |-> [error |-> "No query provided"], looked |-> <<"query">>]
            ELSE IF ~bot
            THEN [result |-> [error |-> "Chatbot service not available"],
                  looked |-> <<"query", "chatbot">>]
            ELSE IF generate_raises
            THEN [result |-> [error |-> "exception"],
                  looked |-> <<"query", "chatbot", "generate_response">>]
            ELSE [result |-> [response |-> out.response, sources |-> out.sources],
                  looked |-> <<"query", "chatbot", "generate_response">>]

\* the slip of a handler that reports no success without a vector store
HandleProcessRequestNeedsStore(data, store, dir, raises) ==
    IF ~data.is_dict
    THEN [result |-> [error |-> "AttributeError"], looked |-> <<>>]
    ELSE IF Get(data.fields, "files", <<>>) = <<>>
    THEN [result |-> [error |-> "No files provided"], looked |-> <<"files">>]
    ELSE IF raises = "process_pdfs"
    THEN [result |-> [error |-> "exception"], looked |-> <<"files", "process_pdfs">>]
    ELSE IF ProcessPdfs[DirPages(dir)] # <<>> /\ store
    THEN IF raises = "create_index"
         THEN [result |-> [error |-> "exception"],
               looked |-> <<"files", "process_pdfs", "create_index">>]
         ELSE [result |-> [success |-> TRUE, message |-> "processed",
                           chunks_count |-> Len(ProcessPdfs[DirPages(dir)])],
               looked |-> <<"files", "process_pdfs", "create_index">>]
    ELSE [result |-> [success |-> FALSE, message |-> "No documents found to process"],
          looked |-> <<"files", "process_pdfs">>]

\* handle_process_request, but for the indexing it asks for.  raises: the
\* step that raises, "process_pdfs", "create_index" or "none".
HandleProcessRequest(data, store, dir, raises) ==
    IF ~data.is_dict
    THEN [result |-> [error |-> "AttributeError"], looked |-> <<>>]
    ELSE LET files == Get(data.fields, "files", <<>>)
             chunks == ProcessPdfs[DirPages(dir)]
         IN IF files = <<>>
            THEN [result |-> [error |-> "No files provided"], looked |-> <<"files">>]
            ELSE IF raises = "process_pdfs"
            THEN [result |-> [error |-> "exception"], looked |-> <<"files", "process_pdfs">>]
            ELSE IF chunks # <<>> /\ store
            THEN IF raises = "create_index"
                 THEN [result |-> [error |-> "exception"],
                       looked |-> <<"files", "process_pdfs", "create_index">>]
                 ELSE [result |-> [success |-> TRUE, message |-> "processed",
                                   chunks_count |-> Len(chunks)],
                       looked |-> <<"files", "process_pdfs", "create_index">>]
            ELSE IF chunks # <<>>
            THEN [result |-> [success |-> TRUE,
                              message |-> "processed (vector store not available)",
                              chunks_count |-> Len(chunks)],
                  looked |-> <<"files", "process_pdfs">>]
            ELSE [result |-> [success |-> FALSE, message |-> "No documents found to process"],
                  looked |-> <<"files", "process_pdfs">>]

(***************************************************************************)
(* The handlers of fastapi_server.  An HTTPException raised in the try     *)
(* block is raised again as it is; any other exception becomes status 500. *)
(* A handler that returns answers with status 200.                         *)
(***************************************************************************)
\* the slip of a handler without `except HTTPException: raise`
HttpExceptionCaught(status_code, detail, looked) ==
    [status |-> 500, doc |-> [detail |-> detail], looked |-> looked]

HttpException(status_code, detail, looked) ==
    [status |-> status_code, doc |-> [detail |-> detail], looked |-> looked]

Returned(doc, looked) == [status |-> 200, doc |-> doc, looked |-> looked]

\* search_documents; invalid: the results do not validate as SearchResponse
SearchDocuments(data, store, dir, semantic, keyword, keyword_raises, invalid) ==
    IF Get(data.fields, "query", "") = ""
    THEN HttpException(400, "No query provided", <<"query">>)
    ELSE IF ~store
    THEN HttpException(503, "Search service not available", <<"query", "vector_store">>)
    ELSE IF invalid
    THEN [status |-> 500, doc |-> [detail |-> "exception"],
          looked |-> <<"query", "vector_store", "hybrid_search">>]
    ELSE Returned([results |->
                     HybridSearch(semantic, keyword,
                                  GetAccessibleDocuments(Get(data.fields, "accessLevel", ""), dir),
                                  keyword_raises)],
                  <<"query", "vector_store", "hybrid_search">>)

\* chatbot_query
ChatbotQuery(data, bot, dir, ranking, retrieval_raises, model, generate_raises) ==
    LET out == GenerateResponse(Get(data.fields, "query", ""), ranking, retrieval_raises,
                                GetAccessibleDocuments(Get(data.fields, "accessLevel", ""), dir),
                                model)
    IN IF Get(data.fields, "query", "") = ""
       THEN HttpException(400, "No query provided", <<"query">>)
       ELSE IF ~bot
       THEN HttpException(503, "Chatbot service not available", <<"query", "chatbot">>)
       ELSE IF generate_raises
       THEN [status |-> 500, doc |-> [detail |-> "exception"],
             looked |-> <<"query", "chatbot", "generate_response">>]
       ELSE Returned([response |-> out.response, sources |-> out.sources],
                     <<"query", "chatbot", "generate_response">>)

\* process_documents, but for the indexing it asks for
ProcessDocuments(data, store, dir, raises) ==
    LET files == Get(data.fields, "files", <<>>)
        chunks == ProcessPdfs[DirPages(dir)]
    IN IF files = <<>>
       THEN HttpException(400, "No files provided", <<"files">>)
       ELSE IF raises = "process_pdfs"
       THEN [status |-> 500, doc |-> [detail |-> "exception"],
             looked |-> <<"files", "process_pdfs">>]
       ELSE IF chunks # <<>> /\ store
       THEN IF raises = "create_index"
            THEN [status |-> 500, doc |-> [detail |-> "exception"],
                  looked |-> <<"files", "process_pdfs", "create_index">>]
            ELSE Returned([success |-> TRUE, message |-> "processed",
                           chunks_count |-> Len(chunks)],
                          <<"files", "process_pdfs", "create_index">>)
       ELSE IF chunks # <<>>
       THEN Returned([success |-> TRUE,
                      message |-> "processed (vector store not available)",
                      chunks_count |-> Len(chunks)],
                     <<"files", "process_pdfs">>)
       ELSE Returned([success |-> FALSE, message |-> "No documents found to process"],
                     <<"files", "process_pdfs">>)

(***************************************************************************)
(* The parts of the state a specification leaves alone.                    *)
(***************************************************************************)
FuseIdle ==
    /\ vector_results = <<>>
    /\ keyword_results = <<>>
    /\ fused = <<>>
    /\ fpc = "idle"

IndexIdle ==
    /\ up = FALSE
    /\ points = <<>>
    /\ keyword_index = <<>>
    /\ fts_index = {}
    /\ embedding_files = <<>>
    /\ embedding_cache = <<>>
    /\ stored = <<>>
    /\ last = [op |-> "none"]

RequestIdle ==
    /\ query = ""
    /\ accessible_docs = [is_none |-> TRUE, docs |-> <<>>]
    /\ semantic_results = <<>>
    /\ keyword_rows = <<>>
    /\ rag_results = <<>>
    /\ llm = "idle"
    /\ reply = [pc |-> "idle"]

ChunkIdle ==
    /\ chunk_pages = <<>>
    /\ chunks_out = [pc |-> "idle"]

ServerIdle ==
    /\ request = [endpoint |-> "none"]
    /\ env = [data_dir |-> {}]
    /\ answer = [pc |-> "idle"]

SessionIdle ==
    /\ messages = <<>>
    /\ history = <<>>
    /\ current_chat_index = 0
    /\ messages_of = 0

(***************************************************************************)
(* _fuse_results is a pure function: any two ranked lists are its inputs.  *)
(***************************************************************************)
FuseInit ==
    /\ vector_results \in VectorLists(FuseIds, FuseIds)
    /\ keyword_results \in KeywordLists(FuseIds, FuseIds)
    /\ fused = <<>>
    /\ fpc = "call"
    /\ IndexIdle
    /\ RequestIdle
    /\ ChunkIdle
    /\ ServerIdle
    /\ SessionIdle

Fuse ==
    /\ fpc = "call"
    /\ fused' = FuseResults(vector_results, keyword_results)
    /\ fpc' = "done"
    /\ UNCHANGED <<vector_results, keyword_results>>
    /\ UNCHANGED <<indexVars, requestVars, chunkVars, serverVars, sessionVars>>

FuseNext == Fuse

SpecFuse == FuseInit /\ [][FuseNext]_vars

(***************************************************************************)
(* QdrantManager.hybrid_search: vector_results and keyword_results are the *)
(* rankings of the whole collection and of the whole keyword table for the *)
(* query; the two searches return their first vector_limit and             *)
(* keyword_limit entries, and these are fused.                             *)
(***************************************************************************)
HybridInit ==
    /\ vector_results \in VectorLists(FuseIds, FuseIds)
    /\ keyword_results \in KeywordLists(FuseIds, FuseIds)
    /\ fused = <<>>
    /\ fpc = "search"
    /\ IndexIdle
    /\ RequestIdle
    /\ ChunkIdle
    /\ ServerIdle
    /\ SessionIdle

QdrantHybridSearch ==
    /\ fpc = "search"
    /\ fused' = FuseResults(VectorSearch(vector_results, vector_limit),
                            Take(keyword_results, keyword_limit))
    /\ fpc' = "done"
    /\ UNCHANGED <<vector_results, keyword_results>>
    /\ UNCHANGED <<indexVars, requestVars, chunkVars, serverVars, sessionVars>>

HybridNext == QdrantHybridSearch

SpecHybrid == HybridInit /\ [][HybridNext]_vars

(***************************************************************************)
(* The indexing backend: processes start (a VectorStore is constructed)    *)
(* and index what process_pdfs reads.  The Qdrant collection, the keyword  *)
(* database file and the embedding files outlive a process; files left by  *)
(* a run under another embedding model may be present at the start.        *)
(***************************************************************************)
IndexInit ==
    /\ up = FALSE
    /\ points = <<>>
    /\ keyword_index = <<>>
    /\ fts_index = {}
    /\ embedding_files \in {<<>>, [id \in AllChunkIds |-> ForeignRecord]}
    /\ embedding_cache = <<>>
    /\ stored = <<>>
    /\ last = [op |-> "none"]
    /\ FuseIdle
    /\ RequestIdle
    /\ ChunkIdle
    /\ ServerIdle
    /\ SessionIdle

\* VectorStore(): QdrantManager() opens the collection that is there,
\* KeywordDatabase() drops and recreates its tables, _initialize loads the
\* embedding files into the empty embedding_cache
ConstructStoreKeepsTables ==
    /\ up' = TRUE
    /\ UNCHANGED <<keyword_index, fts_index>>
    /\ embedding_cache' = LoadEmbeddingCache(embedding_files)
    /\ last' = [op |-> "construct"]
    /\ UNCHANGED <<points, embedding_files, stored>>

ConstructStore ==
    /\ up' = TRUE
    /\ keyword_index' = <<>>
    /\ fts_index' = {}
    /\ embedding_cache' = LoadEmbeddingCache(embedding_files)
    /\ last' = [op |-> "construct"]
    /\ UNCHANGED <<points, embedding_files, stored>>

Construct ==
    /\ ConstructStore
    /\ UNCHANGED <<fuseVars, requestVars, chunkVars, serverVars, sessionVars>>

\* the slip of the two writes in the other order: insert_chunks, then
\* upsert_vectors
CreateIndexCallKeywordsFirst(pages_text, failing, truncates, upsert_ok) ==
    LET chunks == ProcessPdfs[pages_text]
        keys == ChunkKeys(pages_text)
        to_embed == ToEmbed(chunks, embedding_cache)
        returns == GenerateReturns(chunks, embedding_cache)
        embeddings == IF returns THEN GenerateEmbeddings(chunks, embedding_cache)
                      ELSE <<>>
        written == Range(SavedIds(to_embed)) \ failing
        new_rows == InsertChunks(keyword_index, chunks)
    IN IF chunks = <<>>
       THEN /\ last' = [op |-> "create_index", chunks |-> chunks, keys |-> keys,
                        to_embed |-> <<>>, returned |-> FALSE, embeddings |-> <<>>,
                        failing |-> {}, raised |-> FALSE]
            /\ UNCHANGED <<up, points, keyword_index, fts_index, embedding_files,
                           embedding_cache, stored>>
       ELSE /\ embedding_files' = FilesAfterSave(embedding_files, chunks,
                                                 embedding_cache, failing, truncates)
            /\ embedding_cache' = CacheAfterSave(chunks, embedding_cache, failing)
            /\ stored' = [key \in DOMAIN stored
                                  \cup {keys[k] : k \in {j \in 1..Len(keys) :
                                            chunks[j].metadata.chunk_id \in written}} |->
                            IF key \in DOMAIN stored THEN stored[key]
                            ELSE LET k == CHOOSE j \in 1..Len(keys) : keys[j] = key
                                 IN chunks[k].metadata.chunk_id]
            /\ IF returns
               THEN /\ keyword_index' = new_rows
                    /\ fts_index' = FtsAfterInsert(fts_index, keyword_index, new_rows)
                    /\ points' = IF upsert_ok
                                 THEN UpsertVectors(points, chunks, embeddings)
                                 ELSE points
               ELSE UNCHANGED <<points, keyword_index, fts_index>>
            /\ last' = [op |-> "create_index", chunks |-> chunks, keys |-> keys,
                        to_embed |-> to_embed, returned |-> returns,
                        embeddings |-> embeddings,
                        failing |-> failing,
                        raised |-> ~(returns /\ upsert_ok)]
            /\ UNCHANGED up

\* VectorStore.create_index(chunks), chunks being what chunk_text makes of the
\* pages read.  failing: the chunk ids whose embedding file cannot be written;
\* truncates: a failed write leaves an unreadable file; upsert_ok: the Qdrant
\* upsert succeeds.
CreateIndexCall(pages_text, failing, truncates, upsert_ok) ==
    LET chunks == ProcessPdfs[pages_text]
        keys == ChunkKeys(pages_text)
        to_embed == ToEmbed(chunks, embedding_cache)
        returns == GenerateReturns(chunks, embedding_cache)
        embeddings == IF returns THEN GenerateEmbeddings(chunks, embedding_cache)
                      ELSE <<>>
        written == Range(SavedIds(to_embed)) \ failing
        new_rows == InsertChunks(keyword_index, chunks)
    IN IF chunks = <<>>
       THEN /\ last' = [op |-> "create_index", chunks |-> chunks, keys |-> keys,
                        to_embed |-> <<>>, returned |-> FALSE, embeddings |-> <<>>,
                        failing |-> {}, raised |-> FALSE]
            /\ UNCHANGED <<up, points, keyword_index, fts_index, embedding_files,
                           embedding_cache, stored>>
       ELSE /\ embedding_files' = FilesAfterSave(embedding_files, chunks,
                                                 embedding_cache, failing, truncates)
            /\ embedding_cache' = CacheAfterSave(chunks, embedding_cache, failing)
            /\ stored' = [key \in DOMAIN stored
                                  \cup {keys[k] : k \in {j \in 1..Len(keys) :
                                            chunks[j].metadata.chunk_id \in written}} |->
                            IF key \in DOMAIN stored THEN stored[key]
                            ELSE LET k == CHOOSE j \in 1..Len(keys) : keys[j] = key
                                 IN chunks[k].metadata.chunk_id]
            /\ IF returns /\ upsert_ok
               THEN /\ points' = UpsertVectors(points, chunks, embeddings)
                    /\ keyword_index' = new_rows
                    /\ fts_index' = FtsAfterInsert(fts_index, keyword_index, new_rows)
               ELSE UNCHANGED <<points, keyword_index, fts_index>>
            /\ last' = [op |-> "create_index", chunks |-> chunks, keys |-> keys,
                        to_embed |-> to_embed, returned |-> returns,
                        embeddings |-> embeddings,
                        failing |-> failing,
                        raised |-> ~(returns /\ upsert_ok)]
            /\ UNCHANGED up

CreateIndex ==
    /\ up
    /\ \E pages_text \in PageLists :
        LET chunks == ProcessPdfs[pages_text]
            saved == Range(SavedIds(ToEmbed(chunks, embedding_cache)))
        IN \E failing \in {{}} \cup {{id} : id \in saved} :
           \E truncates \in IF failing = {} THEN {FALSE} ELSE BOOLEAN :
           \E upsert_ok \in IF GenerateReturns(chunks, embedding_cache)
                             THEN BOOLEAN ELSE {TRUE} :
                CreateIndexCall(pages_text, failing, truncates, upsert_ok)
    /\ UNCHANGED <<fuseVars, requestVars, chunkVars, serverVars, sessionVars>>

IndexNext == Construct \/ CreateIndex

SpecIndex == IndexInit /\ [][IndexNext]_vars

(***************************************************************************)
(* One run of api_server.main: python api_server.py <endpoint> <data>.     *)
(***************************************************************************)
Endpoints == {"search", "chatbot", "process", "status"}
UnparsableData == [parses |-> FALSE, is_dict |-> FALSE, fields |-> [userId |-> "u1"]]
JsonObject(fields) == [parses |-> TRUE, is_dict |-> TRUE, fields |-> fields]
DataArgs ==
    {UnparsableData, [parses |-> TRUE, is_dict |-> FALSE, fields |-> [userId |-> "u1"]]}
        \cup {JsonObject(f) :
                 f \in {[userId |-> "u1"], [query |-> ""], [query |-> "question"],
                        [query |-> "question", accessLevel |-> ""],
                        [query |-> "question", accessLevel |-> "all"],
                        [query |-> "question", accessLevel |-> "user"],
                        [files |-> <<>>], [files |-> <<"a.pdf">>],
                        [files |-> <<"other.pdf">>]}}
ApiRequests ==
    {[server |-> "api_server", argc |-> n, endpoint |-> "search",
      data |-> JsonObject([query |-> "question"])] : n \in {1, 2}}
        \cup {[server |-> "api_server", argc |-> 3, endpoint |-> e, data |-> d] :
                 e \in Endpoints, d \in DataArgs}

\* the requests FastAPI hands to the handlers: the body has passed the
\* validation of SearchRequest, ChatbotRequest (query: str) or ProcessRequest
FastApiRequests ==
    {[server |-> "fastapi_server", endpoint |-> e, data |-> JsonObject(f)] :
        e \in {"search", "chatbot"},
        f \in {[query |-> ""], [query |-> "question"],
               [query |-> "question", accessLevel |-> "all"],
               [query |-> "question", accessLevel |-> "user"]}}
        \cup {[server |-> "fastapi_server", endpoint |-> "process", data |-> JsonObject(f)] :
                 f \in {[userId |-> "u1"], [files |-> <<>>], [files |-> <<"a.pdf">>],
                        [files |-> <<"other.pdf">>]}}

ApiInit ==
    /\ request \in ApiRequests \cup FastApiRequests
    /\ env \in {[data_dir |-> dir, init |-> i] :
                    dir \in DataDirs, i \in {"ok", "qdrant_fails", "model_fails"}}
    /\ answer = [pc |-> "start"]
    /\ query = ""
    /\ accessible_docs = [is_none |-> TRUE, docs |-> <<>>]
    /\ semantic_results \in
          IF request.endpoint = "search"
          THEN {sem \in SemanticLists : Len(sem) \in {0, 3, 6} /\ (sem # <<>> => sem[1].id = 1)}
          ELSE {<<>>}
    /\ keyword_rows \in
          IF request.endpoint = "search"
          THEN {rows \in KeywordRowLists : Len(rows) <= 1 /\ (rows # <<>> => rows[1].items[1] = 5)}
          ELSE {<<>>}
    /\ rag_results \in
          IF request.endpoint = "chatbot"
          THEN {rank \in VectorLists(SearchIds, RagMatches) :
                    Len(rank) \in {0, 4} /\ (rank # <<>> => rank[1].id = 1)}
          ELSE {<<>>}
    /\ llm \in IF request.endpoint = "chatbot" THEN {"answers", "raises"} ELSE {"idle"}
    /\ reply = [pc |-> "idle"]
    /\ up = FALSE
    /\ points = <<>>
    /\ keyword_index = <<>>
    /\ fts_index = {}
    /\ embedding_files = <<>>
    /\ embedding_cache = <<>>
    /\ stored = <<>>
    /\ last = [op |-> "none"]
    /\ FuseIdle
    /\ ChunkIdle
    /\ SessionIdle

\* the local accessible_docs of a search or chatbot handler that got as far as
\* get_accessible_documents; the variable keeps its value otherwise
AccessibleDocsOf(data, service, dir) ==
    IF data.is_dict /\ Get(data.fields, "query", "") # "" /\ service
    THEN GetAccessibleDocuments(Get(data.fields, "accessLevel", ""), dir)
    ELSE accessible_docs
requestInputs == <<query, semantic_results, keyword_rows, rag_results, llm, reply>>

FinishedFailingOnError(exit_status, line, handler, looked) ==
    [pc |-> "done",
     exit_status |-> IF line.json /\ "error" \in DOMAIN line.doc THEN 1 ELSE exit_status,
     stdout |-> <<line>>, handler |-> handler, looked |-> looked]

\* what a finished run leaves: the exit status, the lines printed, and the
\* handler that ran with what it turned to
Finished(exit_status, line, handler, looked) ==
    [pc |-> "done", exit_status |-> exit_status, stdout |-> <<line>>,
     handler |-> handler, looked |-> looked]
JsonLine(result) == [json |-> TRUE, doc |-> result]
TextLine(text) == [json |-> FALSE, text |-> text]

\* main, up to the two sys.exit(1)
MainUsage ==
    /\ answer.pc = "start"
    /\ request.server = "api_server"
    /\ request.argc < 3 \/ ~request.data.parses
    /\ answer' = Finished(1, TextLine(IF request.argc < 3 THEN "Usage" ELSE "Invalid JSON data"),
                          "none", <<>>)
    /\ UNCHANGED <<request, env>>
    /\ UNCHANGED <<fuseVars, indexVars, requestVars, chunkVars, sessionVars>>

\* initialize_backend: VectorStore() fails in QdrantManager(), or after
\* KeywordDatabase() in the loading of the model, or succeeds
BackendComesUp ==
    IF env.init = "ok" THEN ConstructStore
    ELSE IF env.init = "model_fails"
    THEN /\ keyword_index' = <<>>
         /\ fts_index' = {}
         /\ UNCHANGED <<up, points, embedding_files, embedding_cache, stored, last>>
    ELSE UNCHANGED indexVars

InitializeBackend ==
    /\ answer.pc = "start"
    /\ request.server = "api_server"
    /\ request.argc >= 3
    /\ request.data.parses
    /\ answer' = [pc |-> "initialized"]
    /\ BackendComesUp
    /\ UNCHANGED <<request, env>>
    /\ UNCHANGED <<fuseVars, requestVars, chunkVars, sessionVars>>

SearchEndpoint ==
    /\ answer.pc = "initialized"
    /\ request.server = "api_server"
    /\ request.endpoint = "search"
    /\ \E keyword_raises \in IF up /\ Len(semantic_results) < 5
                               THEN BOOLEAN ELSE {FALSE} :
          LET out == HandleSearchRequest(request.data, up, env.data_dir,
                                         semantic_results, keyword_rows, keyword_raises)
          IN answer' = Finished(0, JsonLine(out.result), "search", out.looked)
    /\ UNCHANGED <<request, env>>
    /\ accessible_docs' = AccessibleDocsOf(request.data, up, env.data_dir)
    /\ UNCHANGED <<fuseVars, indexVars, requestInputs, chunkVars, sessionVars>>

ChatbotEndpoint ==
    /\ answer.pc = "initialized"
    /\ request.server = "api_server"
    /\ request.endpoint = "chatbot"
    /\ \E retrieval_raises \in IF up /\ rag_results # <<>> THEN BOOLEAN ELSE {FALSE} :
       \E generate_raises \in IF up /\ ~retrieval_raises THEN BOOLEAN ELSE {FALSE} :
          LET out == HandleChatbotRequest(request.data, up, env.data_dir, rag_results,
                                          retrieval_raises, llm, generate_raises)
          IN answer' = Finished(0, JsonLine(out.result), "chatbot", out.looked)
    /\ UNCHANGED <<request, env>>
    /\ accessible_docs' = AccessibleDocsOf(request.data, up, env.data_dir)
    /\ UNCHANGED <<fuseVars, indexVars, requestInputs, chunkVars, sessionVars>>

\* handle_process_request: create_index runs when files were named, chunks
\* were produced and the vector store is there
ProcessEndpoint ==
    /\ answer.pc = "initialized"
    /\ request.server = "api_server"
    /\ request.endpoint = "process"
    /\ LET data == request.data
           pages == DirPages(env.data_dir)
           asked == data.is_dict /\ Get(data.fields, "files", <<>>) # <<>>
       IN \E process_raises \in IF asked THEN BOOLEAN ELSE {FALSE} :
            IF asked /\ ~process_raises /\ up /\ ProcessPdfs[pages] # <<>>
            THEN /\ \E upsert_ok \in IF GenerateReturns(ProcessPdfs[pages], embedding_cache)
                                       THEN BOOLEAN ELSE {TRUE} :
                       CreateIndexCall(pages, {}, FALSE, upsert_ok)
                 /\ LET out == HandleProcessRequest(data, up, env.data_dir,
                                    IF last'.raised THEN "create_index" ELSE "none")
                    IN answer' = Finished(0, JsonLine(out.result), "process", out.looked)
            ELSE /\ LET out == HandleProcessRequest(data, up, env.data_dir,
                                    IF process_raises THEN "process_pdfs" ELSE "none")
                    IN answer' = Finished(0, JsonLine(out.result), "process", out.looked)
                 /\ UNCHANGED indexVars
    /\ UNCHANGED <<request, env>>
    /\ UNCHANGED <<fuseVars, requestVars, chunkVars, sessionVars>>

UnknownEndpoint ==
    /\ answer.pc = "initialized"
    /\ request.server = "api_server"
    /\ request.endpoint \notin {"search", "chatbot", "process"}
    /\ answer' = Finished(0, JsonLine([error |-> "Unknown endpoint"]), "none", <<>>)
    /\ UNCHANGED <<request, env>>
    /\ UNCHANGED <<fuseVars, indexVars, requestVars, chunkVars, sessionVars>>

(***************************************************************************)
(* fastapi_server: the startup event, then one request.                    *)
(***************************************************************************)
StartupEvent ==
    /\ answer.pc = "start"
    /\ request.server = "fastapi_server"
    /\ answer' = [pc |-> "initialized"]
    /\ BackendComesUp
    /\ UNCHANGED <<request, env>>
    /\ UNCHANGED <<fuseVars, requestVars, chunkVars, sessionVars>>

Responded(out, handler) ==
    [pc |-> "done", status |-> out.status, doc |-> out.doc,
     handler |-> handler, looked |-> out.looked]

SearchDocumentsCall ==
    /\ answer.pc = "initialized"
    /\ request.server = "fastapi_server"
    /\ request.endpoint = "search"
    /\ \E keyword_raises \in IF up /\ Len(semantic_results) < 5 THEN BOOLEAN ELSE {FALSE} :
       \E invalid \in IF up THEN BOOLEAN ELSE {FALSE} :
          answer' = Responded(SearchDocuments(request.data, up, env.data_dir,
                                              semantic_results, keyword_rows,
                                              keyword_raises, invalid), "search")
    /\ UNCHANGED <<request, env>>
    /\ accessible_docs' = AccessibleDocsOf(request.data, up, env.data_dir)
    /\ UNCHANGED <<fuseVars, indexVars, requestInputs, chunkVars, sessionVars>>

ChatbotQueryCall ==
    /\ answer.pc = "initialized"
    /\ request.server = "fastapi_server"
    /\ request.endpoint = "chatbot"
    /\ \E retrieval_raises \in IF up /\ rag_results # <<>> THEN BOOLEAN ELSE {FALSE} :
       \E generate_raises \in IF up /\ ~retrieval_raises THEN BOOLEAN ELSE {FALSE} :
          answer' = Responded(ChatbotQuery(request.data, up, env.data_dir, rag_results,
                                           retrieval_raises, llm, generate_raises),
                              "chatbot")
    /\ UNCHANGED <<request, env>>
    /\ accessible_docs' = AccessibleDocsOf(request.data, up, env.data_dir)
    /\ UNCHANGED <<fuseVars, indexVars, requestInputs, chunkVars, sessionVars>>

ProcessDocumentsCall ==
    /\ answer.pc = "initialized"
    /\ request.server = "fastapi_server"
    /\ request.endpoint = "process"
    /\ LET data == request.data
           pages == DirPages(env.data_dir)
           asked == Get(data.fields, "files", <<>>) # <<>>
       IN \E process_raises \in IF asked THEN BOOLEAN ELSE {FALSE} :
            IF asked /\ ~process_raises /\ up /\ ProcessPdfs[pages] # <<>>
            THEN /\ \E upsert_ok \in IF GenerateReturns(ProcessPdfs[pages], embedding_cache)
                                       THEN BOOLEAN ELSE {TRUE} :
                       CreateIndexCall(pages, {}, FALSE, upsert_ok)
                 /\ answer' = Responded(ProcessDocuments(data, up, env.data_dir,
                                    IF last'.raised THEN "create_index" ELSE "none"),
                                        "process")
            ELSE /\ answer' = Responded(ProcessDocuments(data, up, env.data_dir,
                                    IF process_raises THEN "process_pdfs" ELSE "none"),
                                        "process")
                 /\ UNCHANGED indexVars
    /\ UNCHANGED <<request, env>>
    /\ UNCHANGED <<fuseVars, requestVars, chunkVars, sessionVars>>

ApiNext ==
    \/ MainUsage
    \/ InitializeBackend
    \/ SearchEndpoint
    \/ ChatbotEndpoint
    \/ ProcessEndpoint
    \/ UnknownEndpoint
    \/ StartupEvent
    \/ SearchDocumentsCall
    \/ ChatbotQueryCall
    \/ ProcessDocumentsCall

SpecApi == ApiInit /\ [][ApiNext]_vars

(***************************************************************************)
(* One call of PDFProcessor.chunk_text.                                    *)
(***************************************************************************)
ChunkInit ==
    /\ chunk_pages \in ChunkInputs
    /\ chunks_out = [pc |-> "call"]
    /\ FuseIdle
    /\ IndexIdle
    /\ RequestIdle
    /\ ServerIdle
    /\ SessionIdle

ChunkTextCall ==
    /\ chunks_out.pc = "call"
    /\ chunks_out' = [pc |-> "done", chunks |-> ChunkText(chunk_pages)]
    /\ UNCHANGED chunk_pages
    /\ UNCHANGED <<fuseVars, indexVars, requestVars, serverVars, sessionVars>>

ChunkNext == ChunkTextCall

SpecChunk == ChunkInit /\ [][ChunkNext]_vars

(***************************************************************************)
(* One call of VectorStore.hybrid_search: the two backends answer the      *)
(* query with ranked lists of at most the limits asked for.                *)
(***************************************************************************)
SearchInit ==
    /\ query = "question"
    /\ accessible_docs \in AccessLists
    /\ semantic_results \in SemanticLists
    /\ keyword_rows \in KeywordRowLists
    /\ rag_results = <<>>
    /\ llm = "idle"
    /\ reply = [pc |-> "call"]
    /\ FuseIdle
    /\ IndexIdle
    /\ ChunkIdle
    /\ ServerIdle
    /\ SessionIdle

Search ==
    /\ reply.pc = "call"
    /\ \E keyword_raises \in IF Len(semantic_results) < 5 THEN BOOLEAN ELSE {FALSE} :
          reply' = [pc |-> "done", op |-> "hybrid_search",
                    results |-> HybridSearch(semantic_results, keyword_rows,
                                             accessible_docs, keyword_raises),
                    keyword_searched |-> Len(semantic_results) < 5,
                    raised |-> keyword_raises]
    /\ UNCHANGED <<query, accessible_docs, semantic_results, keyword_rows,
                   rag_results, llm>>
    /\ UNCHANGED <<fuseVars, indexVars, chunkVars, serverVars, sessionVars>>

SearchNext == Search

SpecSearch == SearchInit /\ [][SearchNext]_vars

(***************************************************************************)
(* One call of Chatbot.generate_response.                                  *)
(***************************************************************************)
ChatInit ==
    /\ query \in Queries
    /\ accessible_docs \in AccessLists
    /\ semantic_results = <<>>
    /\ keyword_rows \in {rows \in KeywordRowLists : Len(rows) <= 1}
    /\ rag_results \in VectorLists(SearchIds, RagMatches)
    /\ llm \in {"answers", "no_response", "raises"}
    /\ reply = [pc |-> "call"]
    /\ FuseIdle
    /\ IndexIdle
    /\ ChunkIdle
    /\ ServerIdle
    /\ SessionIdle

Chat ==
    /\ reply.pc = "call"
    /\ \E retrieval_raises \in BOOLEAN :
          reply' = GenerateResponse(query, rag_results, retrieval_raises,
                                    accessible_docs, llm)
    /\ UNCHANGED <<query, accessible_docs, semantic_results, keyword_rows,
                   rag_results, llm>>
    /\ UNCHANGED <<fuseVars, indexVars, chunkVars, serverVars, sessionVars>>

ChatNext == Chat

SpecChat == ChatInit /\ [][ChatNext]_vars

(***************************************************************************)
(* The chat session of the Streamlit app.  A text is a list of characters; *)
(* every action is one run of the script, from the event that started it   *)
(* to its end or its st.rerun().  A list is an object: after a chat of the *)
(* history is opened, session_state.messages is the list of the entry, and *)
(* an append to it is an append to the entry.                              *)
(***************************************************************************)
MaxChats == 2
MaxTurns == 2
TITLE_CHARS == 30

Text(n, ch) == [k \in 1..n |-> ch]
Prompts == {Text(1, "x"), Text(TITLE_CHARS, "x"), Text(TITLE_CHARS + 1, "x")}
Responses == {"response"}

Intro == [role |-> "assistant", content |-> [kind |-> "intro"]]
UserMessage(prompt) == [role |-> "user", content |-> [kind |-> "prompt", text |-> prompt]]
AssistantMessage(response) ==
    [role |-> "assistant", content |-> [kind |-> "response", text |-> response]]

\* prompt[:30] + "..." if len(prompt) >= 30 else prompt
ChatTitleCutEarly(prompt) ==
    IF Len(prompt) >= TITLE_CHARS
    THEN Take(prompt, TITLE_CHARS) \o <<".", ".", ".">>
    ELSE prompt

\* chat_title = prompt[:30] + "..." if len(prompt) > 30 else prompt
ChatTitle(prompt) ==
    IF Len(prompt) > TITLE_CHARS
    THEN Take(prompt, TITLE_CHARS) \o <<".", ".", ".">>
    ELSE prompt

\* list.append on session_state.messages, seen from the history
AppendedIn(h, entry, msgs) ==
    IF entry = 0 THEN h
    ELSE [h EXCEPT ![entry] = [title |-> h[entry].title, messages |-> msgs]]

AppInit ==
    /\ SessionIdle
    /\ FuseIdle
    /\ IndexIdle
    /\ RequestIdle
    /\ ChunkIdle
    /\ ServerIdle

\* render_chatbot_interface with no prompt submitted
OpenChatbot ==
    /\ messages = <<>>
    /\ messages' = <<Intro>>
    /\ UNCHANGED <<history, current_chat_index, messages_of>>
    /\ UNCHANGED <<fuseVars, indexVars, requestVars, chunkVars, serverVars>>

\* render_chatbot_interface with a prompt from st.chat_input
ChatInput(prompt, response) ==
    /\ messages # <<>>
    /\ Len(messages) < 1 + 2 * MaxTurns
    /\ Len(messages) = 1 => Len(history) < MaxChats
    /\ LET asked == Append(messages, UserMessage(prompt))
           h1 == AppendedIn(history, messages_of, asked)
           first == Len(asked) = 2
           h2 == IF first
                 THEN Append(h1, [title |-> ChatTitle(prompt), messages |-> asked])
                 ELSE h1
           index == IF first THEN Len(h2) ELSE current_chat_index
           answered == Append(asked, AssistantMessage(response))
           h3 == AppendedIn(h2, messages_of, answered)
       IN /\ messages' = answered
          /\ current_chat_index' = index
          /\ history' = IF index # 0
                        THEN [h3 EXCEPT ![index] =
                                [title |-> h3[index].title, messages |-> answered]]
                        ELSE h3
          /\ messages_of' = IF index # 0 /\ index = messages_of THEN 0 ELSE messages_of
    /\ UNCHANGED <<fuseVars, indexVars, requestVars, chunkVars, serverVars>>

\* main: the button "New Chat"
NewChat ==
    /\ messages' = <<Intro>>
    /\ current_chat_index' = 0
    /\ messages_of' = 0
    /\ UNCHANGED history
    /\ UNCHANGED <<fuseVars, indexVars, requestVars, chunkVars, serverVars>>

\* main: the button of chat i of the history
OpenChat(i) ==
    /\ messages' = history[i].messages
    /\ current_chat_index' = i
    /\ messages_of' = i
    /\ UNCHANGED history
    /\ UNCHANGED <<fuseVars, indexVars, requestVars, chunkVars, serverVars>>

Ask == \E prompt \in Prompts, response \in Responses : ChatInput(prompt, response)
Open == \E i \in 1..Len(history) : OpenChat(i)

AppNext == OpenChatbot \/ Ask \/ NewChat \/ Open

SpecApp == AppInit /\ [][AppNext]_vars

(***************************************************************************)
(* What the fusion is to compute, stated from the two input lists alone.   *)
(***************************************************************************)
VectorIds == [i \in 1..Len(vector_results) |-> vector_results[i].id]
KeywordIds == [i \in 1..Len(keyword_results) |-> keyword_results[i][1]]
InputIds == Range(VectorIds) \cup Range(KeywordIds)
FusedIds == {fused[i].id : i \in 1..Len(fused)}
RankIn(ids, id) ==
    IF \E i \in 1..Len(ids) : ids[i] = id
    THEN CHOOSE i \in 1..Len(ids) : ids[i] = id
    ELSE 0
Share(ids, id) ==
    IF RankIn(ids, id) = 0 THEN [n |-> 0, d |-> 1]
    ELSE [n |-> 1, d |-> RankIn(ids, id) + 60]
RRFSum(id) == ScoreAdd(Share(VectorIds, id), Share(KeywordIds, id))
EntriesOf(id) == {i \in 1..Len(fused) : fused[i].id = id}

\* C1 as stated: the returned list holds exactly one entry for every chunk id
\* of the two input lists, and its score is the sum of 1/(rank+60) over the
\* lists the chunk is in.
C1_OneEntryPerId ==
    fpc = "done" =>
        \A id \in InputIds :
            /\ Cardinality(EntriesOf(id)) = 1
            /\ \A i \in EntriesOf(id) : ScoreEq(fused[i].score, RRFSum(id))

\* C1 amended: the returned list holds at most one entry per chunk id, every
\* entry is a chunk of the inputs and carries the sum of 1/(rank+60) over the
\* lists the chunk is in, and every chunk id has its entry whenever the two
\* lists hold at most SIMILARITY_TOP_K distinct ids.
C1_FusedScores ==
    fpc = "done" =>
        /\ \A i \in 1..Len(fused) :
              /\ fused[i].id \in InputIds
              /\ ScoreEq(fused[i].score, RRFSum(fused[i].id))
        /\ \A id \in InputIds : Cardinality(EntriesOf(id)) <= 1
        /\ Cardinality(InputIds) <= SIMILARITY_TOP_K => FusedIds = InputIds

\* a fusion of overlapping lists: a chunk of both lists, ranked differently in
\* each, next to chunks of one list only
C1_Witness ==
    /\ fpc = "done"
    /\ Cardinality(InputIds) <= SIMILARITY_TOP_K
    /\ \E id \in Range(VectorIds) \cap Range(KeywordIds) :
          /\ RankIn(VectorIds, id) # RankIn(KeywordIds, id)
          /\ id \in FusedIds
    /\ Range(VectorIds) \ Range(KeywordIds) # {}
    /\ Range(KeywordIds) \ Range(VectorIds) # {}

\* C2: the returned list is ordered by non-increasing fused score, holds at
\* most SIMILARITY_TOP_K entries, and no chunk left out of it has a fused score
\* strictly higher than a chunk that is in it.
C2_TopKByScore ==
    fpc = "done" =>
        /\ Len(fused) <= SIMILARITY_TOP_K
        /\ \A i, j \in 1..Len(fused) :
              i < j => ~ScoreLess(fused[i].score, fused[j].score)
        /\ \A id \in InputIds \ FusedIds :
              \A i \in 1..Len(fused) : ~ScoreLess(fused[i].score, RRFSum(id))

\* a fusion that leaves chunks out: more than SIMILARITY_TOP_K distinct ids, a
\* chunk of both lists among the returned ones
C2_Witness ==
    /\ fpc = "done"
    /\ Cardinality(InputIds) > SIMILARITY_TOP_K
    /\ Len(fused) = SIMILARITY_TOP_K
    /\ InputIds \ FusedIds # {}
    /\ \E i \in 1..Len(fused) :
          fused[i].id \in Range(VectorIds) \cap Range(KeywordIds)

(***************************************************************************)
(* Claims about the embedding cache and the two indexes.                   *)
(***************************************************************************)
LastIds == ChunkIds(last.chunks)
ToEmbedIds(l) == {l.to_embed[k].metadata.chunk_id : k \in 1..Len(l.to_embed)}

\* C6: a chunk's identifier is decided by (document name, page, offset) alone:
\* in every run of create_index, a chunk whose (document, page, offset) had its
\* embedding stored by an earlier run, in this process or one before it,
\* carries the identifier stored then and is found in the embedding cache (the
\* model is not asked for it).
C6_StoredIdsFoundAgain ==
    [][last'.op = "create_index" =>
          \A k \in 1..Len(last'.keys) :
              last'.keys[k] \in DOMAIN stored =>
                  /\ last'.chunks[k].metadata.chunk_id = stored[last'.keys[k]]
                  /\ last'.chunks[k].metadata.chunk_id \in DOMAIN embedding_cache
                  /\ last'.chunks[k].metadata.chunk_id \notin ToEmbedIds(last')]_vars

\* a reprocessing run: a chunk stored before is found, next to a chunk the
\* model is asked for
C6_Witness ==
    /\ last.op = "create_index"
    /\ \E k \in 1..Len(last.keys) :
          /\ last.keys[k] \in DOMAIN stored
          /\ last.chunks[k].metadata.chunk_id \notin ToEmbedIds(last)
    /\ last.to_embed # <<>>

\* C7: the cache is looked up before the model is called: the model is never
\* asked to embed a chunk whose identifier is in the cache, and the embedding
\* returned for such a chunk is the cached one.
C7_CacheBeforeModel ==
    [][last'.op = "create_index" =>
          \A k \in 1..Len(last'.chunks) :
              LET id == last'.chunks[k].metadata.chunk_id
              IN id \in DOMAIN embedding_cache =>
                    /\ id \notin ToEmbedIds(last')
                    /\ last'.returned => last'.embeddings[k] = embedding_cache[id]]_vars

\* a run with a hit and a miss, the hit being an embedding the model would
\* not compute from the chunk's present text
C7_Witness ==
    /\ last.op = "create_index"
    /\ last.returned
    /\ last.to_embed # <<>>
    /\ \E k \in 1..Len(last.chunks) :
          /\ last.chunks[k].metadata.chunk_id \notin ToEmbedIds(last)
          /\ last.embeddings[k] # Encode(last.chunks[k].text)

\* C8 as stated: after _generate_embeddings returns, every chunk identifier of
\* its input has a record on disk, and a VectorStore constructed afterwards
\* has in embedding_cache exactly the records of the configured model.
C8_EveryIdPersisted ==
    /\ (last.op = "create_index" /\ last.returned) =>
          \A id \in LastIds : Loadable(embedding_files, id)
    /\ last.op = "construct" =>
          \A id \in DOMAIN embedding_files :
              id \in DOMAIN embedding_cache <=> Loadable(embedding_files, id)

\* C8 amended: after _generate_embeddings returns, every chunk identifier of
\* its input whose record write did not fail has a record on disk; a record
\* once written stays; a VectorStore constructed afterwards has in
\* embedding_cache every identifier whose record was written, with the
\* embedding of the record, and no record of another model.
C8_WrittenIdsPersisted ==
    /\ (last.op = "create_index" /\ last.returned) =>
          \A id \in LastIds \ last.failing : Loadable(embedding_files, id)
    /\ \A key \in DOMAIN stored :
          /\ Loadable(embedding_files, stored[key])
          /\ up => /\ stored[key] \in DOMAIN embedding_cache
                   /\ embedding_cache[stored[key]] = embedding_files[stored[key]].embedding
    /\ last.op = "construct" =>
          \A id \in DOMAIN embedding_files :
              id \in DOMAIN embedding_cache <=> Loadable(embedding_files, id)

\* a process started after a run wrote a record, with the record of another
\* model still on disk for another chunk
C8_Witness ==
    /\ last.op = "construct"
    /\ \E key \in DOMAIN stored : stored[key] \in DOMAIN embedding_cache
    /\ \E id \in DOMAIN embedding_files :
          /\ embedding_files[id] = ForeignRecord
          /\ id \notin DOMAIN embedding_cache

\* C9: _generate_embeddings returns one embedding per input chunk in input
\* order, also for chunks of identical text under different identifiers, and
\* after create_index returned without error the vector index holds for each
\* chunk a point under its identifier with the chunk's (text, document name,
\* page) and the embedding returned for it.
C9_OnePointPerChunk ==
    (last.op = "create_index" /\ last.chunks # <<>>) =>
        /\ last.returned
        /\ Len(last.embeddings) = Len(last.chunks)
        /\ ~last.raised =>
              \A k \in 1..Len(last.chunks) :
                  LET id == last.chunks[k].metadata.chunk_id
                  IN /\ id \in DOMAIN points
                     /\ points[id] = PointOf(last.chunks[k], last.embeddings[k])

\* C10: after create_index returned without error the keyword index holds
\* exactly one row per chunk identifier of the input, with that chunk's text,
\* document name, page and keyword string, and the full-text table holds the
\* entry of that row.
C10_OneRowPerChunk ==
    (last.op = "create_index" /\ ~last.raised) =>
        \A k \in 1..Len(last.chunks) :
            LET id == last.chunks[k].metadata.chunk_id
                rs == {r \in 1..Len(keyword_index) : keyword_index[r].id = id}
            IN /\ Cardinality(rs) = 1
               /\ \A r \in rs :
                     /\ keyword_index[r] = RowOf(last.chunks[k])
                     /\ [rowid |-> r, keywords |-> keyword_index[r].keywords] \in fts_index

(***************************************************************************)
(* Claims about the search and chat requests.                              *)
(***************************************************************************)
ResultIdsOf(results) == [k \in 1..Len(results) |-> results[k].id]
Permitted == Range(accessible_docs.docs)

\* C3: for every query, the result of VectorStore.hybrid_search is the top-K
\* of the Reciprocal Rank Fusion of the semantic list and the keyword list
\* the two backends answer for that query.
C3_HybridSearchIsRRF ==
    (reply.pc = "done" /\ reply.op = "hybrid_search"
        /\ accessible_docs.is_none /\ ~reply.raised) =>
        ResultIdsOf(reply.results)
            = ResultIdsOf(FuseResults(semantic_results,
                                      [k \in 1..Len(keyword_rows) |-> keyword_rows[k].items]))

\* C4: when an access-permitted list is given (the empty one included), every
\* result of VectorStore.hybrid_search is of a document in that list.
C4_OnlyPermittedResults ==
    (reply.pc = "done" /\ reply.op = "hybrid_search" /\ ~accessible_docs.is_none) =>
        \A k \in 1..Len(reply.results) :
            reply.results[k].payload.pdf_name \in Permitted

\* C5: when an access-permitted list is given (the empty one included), every
\* chunk returned as a source by Chatbot.generate_response is of a document
\* in that list, and every text in the prompt context is the text of a
\* retrieved chunk of a document in that list.
C5_OnlyPermittedContext ==
    (reply.pc = "done" /\ reply.op = "generate_response" /\ ~accessible_docs.is_none) =>
        /\ \A k \in 1..Len(reply.sources) : reply.sources[k].pdf_name \in Permitted
        /\ \A k \in 1..Len(reply.prompt_context) :
              \E j \in 1..Len(rag_results) :
                  /\ rag_results[j].payload.text = reply.prompt_context[k]
                  /\ rag_results[j].payload.pdf_name \in Permitted

(***************************************************************************)
(* Claims about the chat request.                                          *)
(***************************************************************************)
ChatDone == reply.pc = "done" /\ reply.op = "generate_response"
RankedPayloads(n) ==
    {rag_results[k].payload : k \in 1..Min(n, Len(rag_results))}

\* C11: Chatbot.generate_response retrieves its context by vector search
\* alone (the keyword index is never asked), and every source is one of the
\* first CONTEXT_CHUNKS_FOR_RAG = 3 points of the vector ranking, so that the
\* sources never number more than 3.
C11_VectorSearchOnly ==
    ChatDone =>
        /\ Len(reply.sources) <= 3
        /\ Range(reply.sources) \subseteq RankedPayloads(CONTEXT_CHUNKS_FOR_RAG)
        /\ Range(reply.calls) \subseteq {"vector_search", "ollama.generate"}

C11_Witness ==
    /\ ChatDone
    /\ Len(rag_results) > 3
    /\ Len(reply.sources) = 3
    /\ \E k \in 1..Len(keyword_rows) :
          \A j \in 1..Len(rag_results) : keyword_rows[k].items[1] # rag_results[j].id

\* C12 (as stated): when the language-model call fails, generate_response
\* returns a fallback response that carries the whole context text assembled
\* from the chunks, together with exactly those chunks as sources.
C12_FallbackCarriesContext ==
    (ChatDone /\ reply.llm_called /\ llm = "raises") =>
        /\ reply.response.kind = "fallback"
        /\ reply.response.context = [k \in 1..Len(reply.sources) |-> reply.sources[k].text]
        /\ reply.response.chars = ContextLen(reply.response.context)
        /\ ~reply.response.ellipsis

\* C12 (amended): when the language-model call fails, generate_response
\* returns a fallback response that carries the context text assembled from
\* the chunks, cut to its first 800 characters and followed by "..." when it
\* is longer, together with exactly those chunks as sources.
C12_FallbackCarriesCutContext ==
    (ChatDone /\ reply.llm_called /\ llm = "raises") =>
        /\ reply.response.kind = "fallback"
        /\ reply.response.context = [k \in 1..Len(reply.sources) |-> reply.sources[k].text]
        /\ reply.response.context = reply.prompt_context
        /\ reply.response.chars = Min(ContextLen(reply.response.context), 800)
        /\ reply.response.ellipsis <=> ContextLen(reply.response.context) > 800
        /\ Range(reply.sources) \subseteq RankedPayloads(CONTEXT_CHUNKS_FOR_RAG)

C12_Witness ==
    /\ ChatDone
    /\ llm = "raises"
    /\ reply.response.kind = "fallback"
    /\ Len(reply.sources) = 2
    /\ ContextLen(reply.response.context) > 500
    /\ ContextLen(reply.response.context) <= 800

(***************************************************************************)
(* Claims about chunk_text.                                                *)
(***************************************************************************)
ChunksOfPage(page) ==
    SelectSeq(chunks_out.chunks,
              LAMBDA c : c.metadata.pdf_name = page.pdf_name
                            /\ c.metadata.page = page.page)
ValidOf(page) == SelectSeq(page.sentences, LAMBDA sentence : Len(sentence) >= 5)
WordsOf(page) == Join(page.sentences)
\* the units a page is grouped by, and the size of a group
UnitsOf(page) ==
    IF ValidOf(page) # <<>> THEN ValidOf(page)
    ELSE [w \in 1..Len(WordsOf(page)) |-> <<WordsOf(page)[w]>>]
GroupSize(page) == IF ValidOf(page) # <<>> THEN 5 ELSE 25

\* C13: chunk_text splits every page into groups of 5 valid sentences (a
\* sentence is valid with at least 5 words): the valid sentences appear in
\* order, each in exactly one chunk, every chunk but possibly the last of the
\* page holds exactly 5 of them, and the offsets are 0, 5, 10, ...; a page
\* with no valid sentence is split the same way into groups of 25 words.
C13_FixedSizeGroups ==
    chunks_out.pc = "done" =>
        /\ \A k \in 1..Len(chunks_out.chunks) :
              \E p \in 1..Len(chunk_pages) :
                  /\ chunks_out.chunks[k].metadata.pdf_name = chunk_pages[p].pdf_name
                  /\ chunks_out.chunks[k].metadata.page = chunk_pages[p].page
        /\ \A i, j \in 1..Len(chunks_out.chunks) :
              i < j => chunks_out.chunks[i].metadata.page <= chunks_out.chunks[j].metadata.page
        /\ \A p \in 1..Len(chunk_pages) :
              LET page == chunk_pages[p]
                  units == UnitsOf(page)
                  size == GroupSize(page)
                  cs == ChunksOfPage(page)
              IN /\ Len(cs) = (Len(units) + size - 1) \div size
                 /\ \A k \in 1..Len(cs) :
                       /\ cs[k].text = Join(SubSeq(units, size * (k - 1) + 1,
                                                   Min(size * k, Len(units))))
                       /\ cs[k].metadata.chunk_id
                             = ChunkId(page.pdf_name, page.page, size * (k - 1))

C13_Witness ==
    /\ chunks_out.pc = "done"
    /\ Len(chunk_pages) = 2
    /\ ValidOf(chunk_pages[1]) = <<>>
    /\ Len(ChunksOfPage(chunk_pages[1])) = 3
    /\ Len(ValidOf(chunk_pages[2])) < Len(chunk_pages[2].sentences)
    /\ Len(ChunksOfPage(chunk_pages[2])) = 2
    /\ Len(chunks_out.chunks) = 5

(***************************************************************************)
(* Claims about api_server.                                                *)
(***************************************************************************)
ApiDone == answer.pc = "done" /\ request.server = "api_server"
FastApiDone == answer.pc = "done" /\ request.server = "fastapi_server"
WellFormedArgs ==
    request.server = "api_server" /\ request.argc >= 3 /\ request.data.parses
Printed == answer.stdout[1]
QueryGiven == request.data.is_dict /\ Get(request.data.fields, "query", "") # ""
QueryEmpty == request.data.is_dict /\ Get(request.data.fields, "query", "") = ""

\* C14: with an endpoint name and a data argument that parses as JSON,
\* api_server.main prints exactly one JSON document and ends with exit status
\* 0, whatever the endpoint, whether or not the backend came up and whether
\* or not the handler failed; with fewer than two arguments or data that does
\* not parse it ends with exit status 1 and runs no handler.
C14_ExitStatus ==
    ApiDone =>
        /\ WellFormedArgs =>
              /\ answer.exit_status = 0
              /\ Len(answer.stdout) = 1
              /\ Printed.json
        /\ ~WellFormedArgs =>
              /\ answer.exit_status = 1
              /\ answer.handler = "none"
              /\ answer.looked = <<>>
              /\ ~up

C14_Witness ==
    /\ ApiDone
    /\ request.endpoint = "chatbot"
    /\ env.init = "ok"
    /\ answer.exit_status = 0
    /\ Printed.json
    /\ Printed.doc = [error |-> "exception"]

\* C15: handle_search_request and handle_chatbot_request never raise: the
\* outcome is a dictionary with the result keys (results, or response and
\* sources) or with the key error; an empty or missing query gives the error
\* 'No query provided' before the backend is looked at; a backend that is not
\* initialised gives the error 'service not available' and no search is run.
C15_HandlersAnswer ==
    (ApiDone /\ answer.handler \in {"search", "chatbot"}) =>
        /\ Printed.json
        /\ DOMAIN Printed.doc \in
              {{"error"},
               IF answer.handler = "search" THEN {"results"} ELSE {"response", "sources"}}
        /\ QueryEmpty =>
              /\ Printed.doc = [error |-> "No query provided"]
              /\ answer.looked = <<"query">>
        /\ (QueryGiven /\ ~up) =>
              /\ Printed.doc = [error |-> IF answer.handler = "search"
                                          THEN "Search service not available"
                                          ELSE "Chatbot service not available"]
              /\ "hybrid_search" \notin Range(answer.looked)
              /\ "generate_response" \notin Range(answer.looked)
        /\ (QueryGiven /\ up) => "error" \in DOMAIN Printed.doc
                                    \/ Range(answer.looked) \cap {"hybrid_search", "generate_response"} # {}

C15_Witness ==
    /\ ApiDone
    /\ answer.handler = "search"
    /\ QueryEmpty
    /\ ~up
    /\ Printed.doc = [error |-> "No query provided"]

\* C16: in the FastAPI server the /search and /chatbot handlers answer an
\* empty query with status 400, a backend that is not initialised with 503
\* and any other failure with 500; a 400 or 503 is never turned into a 500,
\* and the empty query is told before the missing backend.
C16_StatusCodes ==
    (FastApiDone /\ answer.handler \in {"search", "chatbot"}) =>
        /\ answer.status \in {200, 400, 503, 500}
        /\ answer.status = 400 <=> QueryEmpty
        /\ answer.status = 503 <=> (QueryGiven /\ ~up)
        /\ answer.status = 500 =>
              Range(answer.looked) \cap {"hybrid_search", "generate_response"} # {}
        /\ answer.status = 200 <=> DOMAIN answer.doc # {"detail"}

C16_Witness ==
    /\ FastApiDone
    /\ answer.handler = "chatbot"
    /\ QueryEmpty
    /\ ~up
    /\ answer.status = 400

(***************************************************************************)
(* Claims about the process request (both servers).                        *)
(***************************************************************************)
ProcessDone == answer.pc = "done" /\ answer.handler = "process"
ProcessDoc == IF request.server = "api_server" THEN Printed.doc ELSE answer.doc
FilesNamed == request.data.is_dict /\ Get(request.data.fields, "files", <<>>) # <<>>
FilesEmpty == request.data.is_dict /\ Get(request.data.fields, "files", <<>>) = <<>>
IsError(doc) == "error" \in DOMAIN doc \/ "detail" \in DOMAIN doc
\* the chunks process_pdfs makes of the data directory
Produced == ProcessPdfs[DirPages(env.data_dir)]
ProcessPdfsRaised == IsError(ProcessDoc) /\ answer.looked = <<"files", "process_pdfs">>
CreateIndexRaised == IsError(ProcessDoc) /\ "create_index" \in Range(answer.looked)
ReportsSuccess ==
    /\ ~IsError(ProcessDoc)
    /\ ProcessDoc.success
    /\ "chunks_count" \in DOMAIN ProcessDoc
    /\ ProcessDoc.chunks_count = Len(Produced)
\* a run starts on empty indexes, so that what they hold was put there by it
IndexesChanged == points # <<>> \/ keyword_index # <<>> \/ embedding_files # <<>>
ProcessBasics ==
    /\ FilesEmpty =>
          /\ IsError(ProcessDoc)
          /\ answer.looked = <<"files">>
          /\ ~IndexesChanged
    /\ FilesNamed => "process_pdfs" \in Range(answer.looked)
    /\ IndexesChanged => (FilesNamed /\ Produced # <<>> /\ up)

\* C17 (as stated): a process request with an empty files list returns an
\* error and processes nothing; with files named it processes the PDFs of the
\* data directory whatever the names, reports success with chunks_count the
\* number of chunks exactly when at least one chunk was produced, and changes
\* the indexes only when chunks were produced and the vector store is there.
C17_SuccessIffChunks ==
    ProcessDone =>
        /\ ProcessBasics
        /\ FilesNamed => (ReportsSuccess <=> (~ProcessPdfsRaised /\ Produced # <<>>))

\* C17 (amended): as above, but success is reported exactly when at least
\* one chunk was produced and create_index, which runs when the vector store
\* is there, did not raise; when it raises the request answers with an error.
C17_SuccessIffChunksIndexed ==
    ProcessDone =>
        /\ ProcessBasics
        /\ FilesNamed =>
              /\ ReportsSuccess <=>
                    (~ProcessPdfsRaised /\ Produced # <<>> /\ ~(up /\ last.raised))
              /\ CreateIndexRaised <=>
                    (~ProcessPdfsRaised /\ Produced # <<>> /\ up /\ last.raised)

C17_Witness ==
    /\ ProcessDone
    /\ request.data.fields = [files |-> <<"other.pdf">>]
    /\ env.data_dir = <<FileC, FileA, FileT>>
    /\ up
    /\ ReportsSuccess
    /\ ProcessDoc.chunks_count = 3
    /\ IndexesChanged

(***************************************************************************)
(* Claims about get_accessible_documents.                                  *)
(***************************************************************************)
AccessDone ==
    /\ answer.pc = "done"
    /\ answer.handler \in {"search", "chatbot"}
    /\ QueryGiven
    /\ up
AccessLevel == Get(request.data.fields, "accessLevel", "")
IndexedDocuments == {chunk.metadata.pdf_name : chunk \in Range(Produced)}

\* C18: get_accessible_documents returns None (search all documents) when
\* the access level is missing, empty or 'all'; for any other access level
\* it returns all documents: a list that holds the name of every document
\* process_pdfs indexes from the data directory.
C18_AllDocumentsPermitted ==
    AccessDone =>
        /\ AccessLevel \in {"", "all"} => accessible_docs.is_none
        /\ AccessLevel \notin {"", "all"} =>
              /\ ~accessible_docs.is_none
              /\ IndexedDocuments \subseteq Range(accessible_docs.docs)

(***************************************************************************)
(* More claims about VectorStore.hybrid_search.                            *)
(***************************************************************************)
SearchDone == reply.pc = "done" /\ reply.op = "hybrid_search"
SemanticTexts == {semantic_results[k].payload.text : k \in 1..Len(semantic_results)}
ResultIdSet == {reply.results[k].id : k \in 1..Len(reply.results)}

\* C19: hybrid_search asks the keyword index only when the semantic search
\* answered fewer than 5 results, and then every chunk the keyword search
\* answered whose text is not among the semantic results is in the combined
\* list (here: in the result, when no access list is given and the two lists
\* together have at most 8 entries, so that nothing is cut or filtered).
C19_KeywordResultsIncluded ==
    SearchDone =>
        /\ reply.keyword_searched <=> Len(semantic_results) < 5
        /\ (/\ reply.keyword_searched
            /\ ~reply.raised
            /\ accessible_docs.is_none
            /\ Len(semantic_results) + Len(keyword_rows) <= 8) =>
              \A k \in 1..Len(keyword_rows) :
                  keyword_rows[k].items[2] \notin SemanticTexts =>
                      keyword_rows[k].items[1] \in ResultIdSet

\* the candidates of a search: the combined list, or the semantic list when
\* the keyword index was not asked
Candidates ==
    IF Len(semantic_results) < 5 THEN CombineResults(semantic_results, keyword_rows)
    ELSE semantic_results
IsPermitted(result) ==
    accessible_docs.is_none \/ result.payload.pdf_name \in Range(accessible_docs.docs)

\* C20: hybrid_search never raises and returns at most 8 results: the access
\* filter comes before the cut, so that the result is the first 8 permitted
\* candidates in ranked order (all of them when fewer than 8 are permitted),
\* and a failure inside the search gives the empty list.
C20_FirstPermittedCandidates ==
    SearchDone =>
        /\ Len(reply.results) <= 8
        /\ reply.raised => reply.results = <<>>
        /\ ~reply.raised =>
              reply.results = Take(SelectSeq(Candidates, IsPermitted), 8)

(***************************************************************************)
(* Claims about QdrantManager.hybrid_search with its configured limits.    *)
(***************************************************************************)
VectorCandidates == Take(VectorIds, 6)
KeywordCandidates == Take(KeywordIds, 2)
InBoth(id) == id \in Range(VectorCandidates) /\ id \in Range(KeywordCandidates)
CandidateScore(id) ==
    ScoreAdd(Share(VectorCandidates, id), Share(KeywordCandidates, id))

\* C21: with the limits of QdrantManager.hybrid_search (vector limit
\* ceil(8 * 0.7) = 6, keyword limit max(1, 8 - 6) = 2, together 8), every
\* chunk of both candidate lists is ranked before every chunk of one list
\* only, and of two chunks with equal fused score a vector-list entry comes
\* before a keyword-only entry (vector-list entries in their vector order).
C21_BothListsFirst ==
    fpc = "done" =>
        /\ vector_limit = 6
        /\ keyword_limit = 2
        /\ vector_limit + keyword_limit = SIMILARITY_TOP_K
        /\ FusedIds = Range(VectorCandidates) \cup Range(KeywordCandidates)
        /\ \A i \in 1..Len(fused) : ScoreEq(fused[i].score, CandidateScore(fused[i].id))
        /\ \A i, j \in 1..Len(fused) :
              (InBoth(fused[i].id) /\ ~InBoth(fused[j].id)) => i < j
        /\ \A i, j \in 1..Len(fused) :
              (i < j /\ ScoreEq(fused[i].score, fused[j].score)) =>
                  /\ fused[j].id \in Range(VectorCandidates) =>
                        fused[i].id \in Range(VectorCandidates)
                  /\ (fused[i].id \in Range(VectorCandidates)
                        /\ fused[j].id \in Range(VectorCandidates)) =>
                        RankIn(VectorCandidates, fused[i].id)
                            < RankIn(VectorCandidates, fused[j].id)

\* the rankings are longer than the limits; a chunk at the end of both
\* candidate lists comes first, and a vector-only and a keyword-only chunk of
\* equal score follow in that order
C21_Witness ==
    /\ fpc = "done"
    /\ Len(vector_results) > 6
    /\ Len(keyword_results) > 2
    /\ InBoth(fused[1].id)
    /\ RankIn(VectorCandidates, fused[1].id) = 6
    /\ RankIn(KeywordCandidates, fused[1].id) = 2
    /\ \E i, j \in 1..Len(fused) :
          /\ i < j
          /\ ScoreEq(fused[i].score, fused[j].score)
          /\ fused[i].id \notin Range(KeywordCandidates)
          /\ fused[j].id \notin Range(VectorCandidates)

(***************************************************************************)
(* Claims about repeated indexing and restarts.                            *)
(***************************************************************************)
\* a create_index call in which nothing around the program failed: every
\* embedding file could be written and the Qdrant upsert was not refused
Undisturbed(l) ==
    /\ l.op = "create_index"
    /\ l.chunks # <<>>
    /\ l.failing = {}
    /\ l.raised => ~l.returned
SameChunksAgain ==
    /\ Undisturbed(last)
    /\ Undisturbed(last')
    /\ last'.chunks = last.chunks

\* C22: create_index is idempotent on one running backend: a second call
\* with the same chunks raises no error and leaves the vector index, the
\* keyword index and the embedding cache as they were after the first call.
C22_SecondCallChangesNothing ==
    [][SameChunksAgain =>
          /\ ~last'.raised
          /\ points' = points
          /\ keyword_index' = keyword_index
          /\ fts_index' = fts_index
          /\ embedding_cache' = embedding_cache]_vars

(***************************************************************************)
(* Claims about the order of the steps of generate_response.               *)
(***************************************************************************)
\* the chunks a retrieval that does not fail hands to the filter
RetrievedDocs ==
    {rag_results[k].payload.pdf_name :
        k \in 1..Min(CONTEXT_CHUNKS_FOR_RAG, Len(rag_results))}
NothingRetrieved == Blank(query) \/ rag_results = <<>>
NothingPermitted ==
    /\ ~accessible_docs.is_none
    /\ accessible_docs.docs # <<>>
    /\ RetrievedDocs \cap Range(accessible_docs.docs) = {}

\* C23: generate_response asks the language model only after retrieval and
\* access filtering have left at least one chunk: an empty query is answered
\* with 'Please ask a question.', no sources and no retrieval; an empty
\* retrieval or an empty filtered set is answered with a 'could not find'
\* message, no sources and no call of the model.
C23_ModelAfterRetrieval ==
    ChatDone =>
        /\ query = "" =>
              /\ reply.response.kind = "ask"
              /\ reply.sources = <<>>
              /\ reply.calls = <<>>
              /\ ~reply.retrieved
        /\ reply.llm_called =>
              /\ reply.sources # <<>>
              /\ reply.prompt_context # <<>>
              /\ reply.calls = <<"vector_search", "ollama.generate">>
        /\ (query # "" /\ ~reply.llm_called) =>
              /\ reply.response.kind \in {"not_found", "not_found_accessible"}
              /\ reply.sources = <<>>
              /\ "ollama.generate" \notin Range(reply.calls)
        /\ (query # "" /\ NothingRetrieved) => reply.response.kind = "not_found"
        /\ (query # "" /\ ~NothingRetrieved /\ NothingPermitted) => ~reply.llm_called

C23_Witness ==
    /\ ChatDone
    /\ query = "question"
    /\ rag_results # <<>>
    /\ NothingPermitted
    /\ reply.response.kind = "not_found_accessible"
    /\ reply.calls = <<"vector_search">>

(***************************************************************************)
(* Claims about the chat history of the Streamlit app.                     *)
(***************************************************************************)
\* a step in which a turn was completed: a user message and the response to
\* it were appended to session_state.messages (and the list was not replaced
\* by the list of a chat of the history)
TurnCompleted ==
    /\ messages # <<>>
    /\ messages_of' \in {0, messages_of}
    /\ Len(messages') = Len(messages) + 2
    /\ SubSeq(messages', 1, Len(messages)) = messages
    /\ messages'[Len(messages) + 1].role = "user"
    /\ messages'[Len(messages) + 2].role = "assistant"
FirstUserMessage == TurnCompleted /\ \A k \in 1..Len(messages) : messages[k].role # "user"
PromptOfTurn == messages'[Len(messages) + 1].content.text
Titles(h) == [k \in 1..Len(h) |-> h[k].title]

\* C24: a history entry is created exactly once per conversation, at the
\* conversation's first user message, its title being the prompt cut to 30
\* characters plus '...' when the prompt is longer; after every completed turn
\* the history entry at current_chat_index holds the same message sequence as
\* session_state.messages.
C24_OneEntryPerConversation ==
    [][/\ Len(history') # Len(history) => FirstUserMessage
       /\ FirstUserMessage =>
             /\ Len(history') = Len(history) + 1
             /\ Titles(history') = Append(Titles(history),
                    IF Len(PromptOfTurn) > 30
                    THEN SubSeq(PromptOfTurn, 1, 30) \o <<".", ".", ".">>
                    ELSE PromptOfTurn)
             /\ current_chat_index' = Len(history')
       /\ (TurnCompleted /\ ~FirstUserMessage) =>
             /\ Titles(history') = Titles(history)
             /\ current_chat_index' = current_chat_index
       /\ TurnCompleted =>
             /\ current_chat_index' \in 1..Len(history')
             /\ history'[current_chat_index'].messages = messages']_vars

C24_Witness ==
    /\ Len(history) = 2
    /\ current_chat_index = 1
    /\ Len(messages) = 5
    /\ history[1].messages = messages
    /\ Len(messages[2].content.text) = 31
    /\ Len(history[1].title) = 33
    /\ Len(history[2].title) = 30

(***************************************************************************)
(* Claims about what a construction of the backend does to the indexes.    *)
(***************************************************************************)
AllWords == UNION {Range(Keywords[text]) : text \in DOMAIN Keywords}
KeywordQueries == {<<w>> : w \in AllWords}
NoRowFound(rows, fts) ==
    \A keywords \in KeywordQueries :
        KeywordDbSearch(rows, fts, keywords, hybrid_keyword_limit) = <<>>

\* C25: constructing a backend leaves the keyword index empty whatever was
\* indexed before, and leaves the vector index and the embedding files as
\* they were; keyword search then returns no row, and it returns a row again
\* only after a create_index.
C25_ConstructionEmptiesKeywordIndex ==
    [][/\ last'.op = "construct" =>
             /\ keyword_index' = <<>>
             /\ fts_index' = {}
             /\ points' = points
             /\ embedding_files' = embedding_files
             /\ NoRowFound(keyword_index', fts_index')
       /\ (NoRowFound(keyword_index, fts_index)
              /\ ~NoRowFound(keyword_index', fts_index')) =>
             last'.op = "create_index"]_vars

C25_Witness ==
    /\ last.op = "construct"
    /\ points # <<>>
    /\ DOMAIN stored # {}
    /\ keyword_index = <<>>

(***************************************************************************)
(* Claims about the two indexes taken together.                            *)
(***************************************************************************)
KeywordChunkIds(rows) == {rows[r].id : r \in 1..Len(rows)}

\* C26: in every state reached through constructions and create_index calls,
\* failing or not, the chunk ids of the keyword index are chunk ids of the
\* vector index: create_index writes the vector index first, and writes no
\* keyword row when the vector write failed.
C26_KeywordIdsInVectorIndex ==
    [][/\ KeywordChunkIds(keyword_index') \subseteq DOMAIN points'
       /\ (last'.op = "create_index" /\ last'.raised) =>
             keyword_index' = keyword_index
       /\ keyword_index' # keyword_index =>
             KeywordChunkIds(keyword_index') \ KeywordChunkIds(keyword_index)
                 \subseteq DOMAIN points']_vars

C26_Witness ==
    /\ last.op = "create_index"
    /\ last.returned
    /\ last.raised
    /\ keyword_index # <<>>
    /\ KeywordChunkIds(keyword_index) # DOMAIN points

====
